---- MODULE Spec2Model ----
(***************************************************************************)
(* Frame scheduling of the elements-rs Vulkan renderer.                    *)
(*                                                                         *)
(* Two renderer iterations live in the sources and both are modelled:      *)
(*   - VulkanRenderer::draw_frame of renderer_vulkan/mod.rs, which keeps   *)
(*     one `previous_frame_end` future (variables window, render_context,  *)
(*     frame_log, ret, ticks, panicked; specification SpecDrawFrame);      *)
(*   - RenderContext / ActiveFrame of renderer_vulkan/render_context.rs,   *)
(*     which keeps MAX_FRAMES_IN_FLIGHT frame slots (variables rcx, pc,    *)
(*     frame, gpu, last_frame, result; specification Spec).                *)
(* Two further machines model what surrounds the frame loop:              *)
(*   - the load loop of Application::run and the uploads it calls, of      *)
(*     renderer_vulkan/resources.rs and buffers.rs (variables resources,   *)
(*     manager, load, upload, in_flight; specification SpecUpload);        *)
(*   - VulkanSwapchain::new / recreate of renderer_vulkan/swapchain.rs     *)
(*     (variables surface, vsc, calls; specification SpecSwapchain).       *)
(* The driver (acquire / recreate / submit results) and the GPU (fence     *)
(* completion) are the environment: their outcomes are drawn with \E.      *)
(***************************************************************************)
EXTENDS Integers, Sequences, FiniteSets, TLC

\* ------------------------------------------------------------------ bounds
\* Window widths are 0..MaxWidth; a height is 0 (zero area) or 1.
MaxWidth == 2
\* A chain has between MAX_FRAMES_IN_FLIGHT and MaxImages images.
MaxImages == 3
\* Fences (completion signals) are drawn from 0..MaxFences-1.
MaxFences == 3
\* Swapchain handles are drawn from 0..NumHandles-1; a recreate takes the next.
NumHandles == 2

\* A registry holds at most MaxUniformBuffers uniform buffers, and that many
\* are asked for at most.
MaxUniformBuffers == 5
\* A machine has at most MaxDevices physical devices.
MaxDevices == 2

\* ------------------------------------------------------- program constants
MAX_FRAMES_IN_FLIGHT == 2

\* Option<T>: None is the empty sequence, Some(x) the sequence of x alone
None == <<>>
Some(x) == <<x>>

Sizes == (0..MaxWidth) \X (0..1)
ImageCounts == MAX_FRAMES_IN_FLIGHT..MaxImages
Slots == 0..(MAX_FRAMES_IN_FLIGHT - 1)

VARIABLES
    window,          \* window::Window {is_minimized, width, height}
    render_context,  \* mod.rs VulkanRenderer.render_context: Option<RenderContext>
    frame_log,       \* driver calls made by the last draw_frame, in order
    ret,             \* what the last draw_frame returned and traced
    ticks,           \* parity of the number of draw_frame calls made
    panicked,        \* Application::on_update hit panic!("Renderer update failed")
    rcx,             \* render_context.rs RenderContext
    pc,              \* where the update in progress stands ("idle": none)
    frame,           \* locals of the update in progress / the ActiveFrame
    gpu,             \* per fence: is its submission unused, executing, signaled
    last_frame,      \* the last recorded frame: its slot, submit result, fence wait
    result,          \* what the last update returned and traced
    scenario,        \* the slots submitted so far by a run with no resize and
                     \* only Ok driver answers (None once the run departs from it)
    resources,       \* resources.rs VulkanResources {meshes, textures, uniform_buffers}
    manager,         \* buffers.rs VulkanResourceManager {meshes, uniform_buffers}
    load,            \* where Application::run stands in its load loop
    upload,          \* the upload call in progress: its locals and its return
    in_flight,       \* one-time command buffers submitted and not yet signaled
    surface,         \* what the driver answers for the surface
    vsc,             \* swapchain.rs VulkanSwapchain
    calls,           \* the VulkanSwapchain::recreate calls made, most recent last
    devices,         \* what Instance::enumerate_physical_devices answers, in order
    device_ctx,      \* what VulkanRenderer::new returned: the device context or an error
    uniform_call,    \* the last create_uniform_buffers call: its registry, count, result
    render_targets,  \* render_targets.rs RenderTargets {images, framebuffers}
    targets_call,    \* the last RenderTargets call: its name, arguments and result
    input,           \* input/mod.rs Input
    last_key_event   \* per key, the state of the last KeyEvent handled for it

drawFrameVars == <<render_context, frame_log, ret, ticks>>
slotVars == <<rcx, pc, frame, gpu, last_frame, result>>
loadVars == <<resources, manager, load, upload, in_flight>>
chainVars == <<surface, vsc, calls>>
startVars == <<devices, device_ctx, uniform_call>>
auxVars == <<render_targets, targets_call, input, last_key_event>>
vars == <<window, render_context, frame_log, ret, ticks, panicked,
          rcx, pc, frame, gpu, last_frame, result, scenario,
          resources, manager, load, upload, in_flight, surface, vsc, calls,
          devices, device_ctx, uniform_call,
          render_targets, targets_call, input, last_key_event>>

\* ------------------------------------------------------------------ window
\* Window::is_minimized
is_minimized == window.is_minimized

\* Window::get_width
get_width == window.width

\* Window::get_height
get_height == window.height

\* winit_window.inner_size(): the size the Resized event carried into set_size
inner_size == <<window.width, window.height>>

\* Window::set_size, reached from Application::handle_window_event(Resized)
set_size(w, h) ==
    /\ window' = [window EXCEPT !.width = w, !.height = h]

\* Application::handle_window_event, WindowEvent::Resized arm
handle_window_event ==
    /\ ~panicked
    /\ \E sz \in Sizes :
          /\ sz # inner_size
          /\ set_size(sz[1], sz[2])
    /\ scenario' = None
    /\ UNCHANGED <<auxVars, drawFrameVars, slotVars, panicked, loadVars, chainVars, startVars>>

\* ------------------------------------------------------ input/mod.rs: Input
\* The physical keys of the keyboard are 1..NumKeys.
NumKeys == 2

Keys == 1..NumKeys
MouseButtons == {"Left", "Right"}
ElementStates == {"Pressed", "Released"}

\* winit's KeyEvent: repeat is set by the platform on the events it generates
\* while the key is held
KeyEvent(physical_key, state, repeat) ==
    [physical_key |-> physical_key, state |-> state, repeat |-> repeat]

\* Input::new, Input::default: empty sets and the position (0.0, 0.0)
Input_new ==
    [keys_pressed |-> {}, keys_just_pressed |-> {}, keys_just_released |-> {},
     mouse_buttons_pressed |-> {}, mouse_pos |-> <<0, 0>>]

\* Mutant of prepare_for_next_frame: the held keys are forgotten as well
prepare_for_next_frame_clears_pressed(inp) ==
    [inp EXCEPT !.keys_pressed = {},
                !.keys_just_pressed = {},
                !.keys_just_released = {}]

\* Input::prepare_for_next_frame
prepare_for_next_frame(inp) ==
    [inp EXCEPT !.keys_just_pressed = {},
                !.keys_just_released = {}]

\* Input::is_key_pressed
is_key_pressed(inp, key) == key \in inp.keys_pressed

\* Input::was_key_just_pressed
was_key_just_pressed(inp, key) == key \in inp.keys_just_pressed

\* Mutant of handle_keyboard_input: every Pressed event marks the key as
\* just pressed
handle_keyboard_input_retriggers(inp, event) ==
    LET keycode == event.physical_key
    IN  IF event.state = "Pressed"
        THEN [inp EXCEPT !.keys_just_pressed = @ \cup {keycode},
                         !.keys_pressed = @ \cup {keycode}]
        ELSE [inp EXCEPT !.keys_pressed = @ \ {keycode},
                         !.keys_just_released = @ \cup {keycode}]

\* Input::handle_keyboard_input
handle_keyboard_input(inp, event) ==
    LET keycode == event.physical_key
    IN  IF event.state = "Pressed"
        THEN [inp EXCEPT !.keys_just_pressed =
                            IF ~is_key_pressed(inp, keycode)
                            THEN @ \cup {keycode}
                            ELSE @,
                         !.keys_pressed = @ \cup {keycode}]
        ELSE [inp EXCEPT !.keys_pressed = @ \ {keycode},
                         !.keys_just_released = @ \cup {keycode}]

\* Input::handle_mouse_input
handle_mouse_input(inp, state, button) ==
    IF state = "Pressed"
    THEN [inp EXCEPT !.mouse_buttons_pressed = @ \cup {button}]
    ELSE [inp EXCEPT !.mouse_buttons_pressed = @ \ {button}]

\* Input::handle_cursor
handle_cursor(inp, position) ==
    [inp EXCEPT !.mouse_pos = position]

\* Application::handle_window_event, WindowEvent::KeyboardInput arm. The
\* platform sends a repeated Pressed only for a key whose last event was
\* Pressed.
keyboard_input ==
    /\ ~panicked
    /\ \E key \in Keys, state \in ElementStates, repeat \in BOOLEAN :
          /\ repeat => /\ state = "Pressed"
                       /\ last_key_event[key] # None
                       /\ last_key_event[key][1].state = "Pressed"
          /\ input' = handle_keyboard_input(input, KeyEvent(key, state, repeat))
          /\ last_key_event' =
                [last_key_event EXCEPT ![key] = Some(KeyEvent(key, state, repeat))]
    /\ UNCHANGED <<window, drawFrameVars, panicked, slotVars, scenario, loadVars,
                   chainVars, startVars, render_targets, targets_call>>

\* Application::handle_window_event, WindowEvent::MouseInput arm
mouse_input ==
    /\ ~panicked
    /\ \E state \in ElementStates, button \in MouseButtons :
          input' = handle_mouse_input(input, state, button)
    /\ UNCHANGED <<window, drawFrameVars, panicked, slotVars, scenario, loadVars,
                   chainVars, startVars, render_targets, targets_call, last_key_event>>

\* Application::handle_window_event, WindowEvent::CursorMoved arm; the
\* positions are those of the window's sizes
cursor_moved ==
    /\ ~panicked
    /\ \E position \in Sizes : input' = handle_cursor(input, position)
    /\ UNCHANGED <<window, drawFrameVars, panicked, slotVars, scenario, loadVars,
                   chainVars, startVars, render_targets, targets_call, last_key_event>>

\* --------------------------------------------- mod.rs: the log of one frame
\* One driver call: op is "recreate", "acquire", "record", "submit" or
\* "present"; res is what the driver answered; handle is the swapchain used.
Ev(op, res, handle, index, extent) ==
    [op |-> op, res |-> res, handle |-> handle, index |-> index, extent |-> extent]

\* What a draw_frame call returned (val) and the line it traced (logged)
Ret(val, logged) == [val |-> val, logged |-> logged]

NoExtent == <<0, 0>>

\* VulkanSwapchain / Arc<Swapchain> with the images it owns
Chain(handle, extent, image_count) ==
    [handle |-> handle, extent |-> extent, image_count |-> image_count]

\* window_size_dependent_setup: one framebuffer per image of the given chain
window_size_dependent_setup(handle, image_count) ==
    [handle |-> handle, count |-> image_count]

\* Mutant of recreate: the new chain keeps the extent of the one it replaces
recreate_keeps_extent(chain, window_size, n) ==
    Chain((chain.handle + 1) % NumHandles, chain.extent, n)

\* Swapchain::recreate: a new handle with the requested extent; the driver
\* chooses how many images it hands back (n).
recreate(chain, window_size, n) ==
    Chain((chain.handle + 1) % NumHandles, window_size, n)

\* VulkanRenderer::initialize_render_context
initialize_render_context ==
    /\ ~panicked
    /\ render_context = None
    /\ get_width > 0 /\ get_height > 0
    /\ \E n \in ImageCounts :
          render_context' = Some(
              [swapchain |-> Chain(0, inner_size, n),
               framebuffers |-> window_size_dependent_setup(0, n),
               viewport |-> inner_size,
               recreate_swapchain |-> FALSE,
               previous_frame_end |-> Some("now")])
    /\ UNCHANGED <<auxVars, window, frame_log, ret, ticks, panicked, slotVars, scenario,
                   loadVars, chainVars, startVars>>

\* ------------------------------------------------- mod.rs: draw_frame steps
AcquireResults == {"Ok", "Suboptimal", "OutOfDate", "Err"}
SubmitResults == {"Ok", "OutOfDate", "Err"}

\* Mutant of window_skipped: a minimized window is drawn to
window_skipped_ignores_minimized ==
    get_width = 0 \/ get_height = 0

\* Mutant of window_skipped: the height is not looked at
window_skipped_ignores_height ==
    is_minimized \/ get_width = 0

\* draw_frame, the early return for a minimized or zero-sized window
window_skipped ==
    is_minimized \/ get_width = 0 \/ get_height = 0

\* Mutant of recreate_swapchain_block: the viewport keeps its old extent
recreate_swapchain_block_stale_viewport(rc, window_size, n) ==
    LET new_swapchain == recreate(rc.swapchain, window_size, n)
    IN  [rc EXCEPT !.swapchain = new_swapchain,
                   !.framebuffers = window_size_dependent_setup(new_swapchain.handle, n),
                   !.recreate_swapchain = FALSE]

\* draw_frame, `if rcx.recreate_swapchain { ... }`: new chain at the window
\* size, framebuffers rebuilt from the new images, viewport extent, flag cleared
recreate_swapchain_block(rc, window_size, n) ==
    LET new_swapchain == recreate(rc.swapchain, window_size, n)
    IN  [rc EXCEPT !.swapchain = new_swapchain,
                   !.framebuffers = window_size_dependent_setup(new_swapchain.handle, n),
                   !.viewport = window_size,
                   !.recreate_swapchain = FALSE]

\* Mutant of acquire_block: OutOfDate does not set the flag
acquire_block_ood_no_flag(rc, acq) ==
    IF acq = "Suboptimal"
    THEN [rc EXCEPT !.recreate_swapchain = TRUE]
    ELSE rc

\* Mutant of acquire_block: a suboptimal acquire does not set the flag
acquire_block_suboptimal_no_flag(rc, acq) ==
    IF acq = "OutOfDate"
    THEN [rc EXCEPT !.recreate_swapchain = TRUE]
    ELSE rc

\* Mutant of acquire_block: a suboptimal acquire rebuilds the chain at once
acquire_block_recreates_now(rc, acq) ==
    IF acq = "OutOfDate"
    THEN [rc EXCEPT !.recreate_swapchain = TRUE]
    ELSE IF acq = "Suboptimal"
    THEN [rc EXCEPT !.swapchain = recreate(rc.swapchain, rc.swapchain.extent,
                                          rc.swapchain.image_count)]
    ELSE rc

\* draw_frame, the match on acquire_next_image and `if suboptimal`
acquire_block(rc, acq) ==
    IF acq \in {"OutOfDate", "Suboptimal"}
    THEN [rc EXCEPT !.recreate_swapchain = TRUE]
    ELSE rc

\* Mutant of submit_block: a submission that answers OutOfDate does not put
\* a completion signal back
submit_block_ood_takes(rc, sub) ==
    CASE sub = "Ok" -> [rc EXCEPT !.previous_frame_end = Some("fence")]
      [] sub = "OutOfDate" -> [rc EXCEPT !.recreate_swapchain = TRUE,
                                         !.previous_frame_end = None]
      [] OTHER -> [rc EXCEPT !.previous_frame_end = None]

\* draw_frame, previous_frame_end.take() and the match on the flushed future
submit_block(rc, sub) ==
    CASE sub = "Ok" -> [rc EXCEPT !.previous_frame_end = Some("fence")]
      [] sub = "OutOfDate" -> [rc EXCEPT !.recreate_swapchain = TRUE,
                                         !.previous_frame_end = Some("now")]
      [] OTHER -> [rc EXCEPT !.previous_frame_end = None]

\* What draw_frame returns for a submission result
submit_ret(sub) == IF sub \in {"Ok", "OutOfDate"} THEN "Ok" ELSE "Err"

\* VulkanRenderer::draw_frame, the whole call. Driver inputs: rec_ok (does
\* Swapchain::recreate succeed), n (images of a recreated chain), acq and idx
\* (acquire_next_image), sub (then_signal_fence_and_flush).
draw_frame(rec_ok, n, acq, idx, sub) ==
    /\ ticks' = 1 - ticks
    /\ IF window_skipped
       THEN /\ ret' = Ret("Ok", "skipping draw frame")
            /\ frame_log' = <<>>
            /\ UNCHANGED render_context
       ELSE IF render_context = None
       THEN /\ ret' = Ret("Ok", "Render context not initialized")
            /\ frame_log' = <<>>
            /\ UNCHANGED render_context
       ELSE
       LET rcx0 == render_context[1] IN
       IF rcx0.previous_frame_end = None
       THEN /\ ret' = Ret("Err", "Previous frame could not be borrowed")
            /\ frame_log' = <<>>
            /\ UNCHANGED render_context
       ELSE IF rcx0.recreate_swapchain /\ ~rec_ok
       THEN /\ ret' = Ret("Err", "")
            /\ frame_log' = <<Ev("recreate", "Err", rcx0.swapchain.handle,
                                 -1, inner_size)>>
            /\ UNCHANGED render_context
       ELSE
         LET rc1 == IF rcx0.recreate_swapchain
                    THEN recreate_swapchain_block(rcx0, inner_size, n)
                    ELSE rcx0
             log1 == IF rcx0.recreate_swapchain
                     THEN <<Ev("recreate", "Ok", rc1.swapchain.handle, -1, inner_size)>>
                     ELSE <<>>
             log2 == Append(log1, Ev("acquire", acq, rc1.swapchain.handle,
                                     IF acq \in {"Ok", "Suboptimal"} THEN idx ELSE -1,
                                     NoExtent))
             rc2 == acquire_block(rc1, acq)
         IN IF acq = "OutOfDate"
            THEN /\ ret' = Ret("Ok", "")
                 /\ frame_log' = log2
                 /\ render_context' = Some(rc2)
            ELSE IF acq = "Err"
            THEN /\ ret' = Ret("Err", "Failed to acquire next image")
                 /\ frame_log' = log2
                 /\ render_context' = Some(rc2)
            ELSE
              /\ idx < rc1.swapchain.image_count
              /\ idx < rc2.framebuffers.count
              /\ LET log3 == log2 \o
                       <<Ev("record", "Ok", rc2.framebuffers.handle, idx, rc2.viewport),
                         Ev("submit", sub, rc2.swapchain.handle, idx, NoExtent)>>
                     log4 == IF sub = "Ok"
                             THEN Append(log3, Ev("present", "Ok", rc2.swapchain.handle,
                                                  idx, NoExtent))
                             ELSE log3
                 IN /\ ret' = Ret(submit_ret(sub), "")
                    /\ frame_log' = log4
                    /\ render_context' = Some(submit_block(rc2, sub))

\* The driver is asked for an answer only by the calls a frame reaches: an
\* answer no call asks for is fixed, so that each frame is generated once.
answers_asked(flag, skipped, rec_ok, n, acq, idx, sub) ==
    /\ (skipped \/ ~flag) => (rec_ok /\ n = MAX_FRAMES_IN_FLIGHT)
    /\ ~rec_ok => n = MAX_FRAMES_IN_FLIGHT
    /\ (skipped \/ (flag /\ ~rec_ok)) => acq = "Ok"
    /\ (skipped \/ (flag /\ ~rec_ok) \/ acq \notin {"Ok", "Suboptimal"})
          => (idx = 0 /\ sub = "Ok")

\* Application::on_update around the renderer's update: an Err is logged and
\* then panic!("Renderer update failed") ends the process; after an Ok the
\* input's per-frame sets are cleared.
on_update ==
    /\ ~panicked
    /\ \E rec_ok \in BOOLEAN, n \in ImageCounts, acq \in AcquireResults,
          idx \in 0..(MaxImages - 1), sub \in SubmitResults :
          /\ answers_asked(render_context # None /\ render_context[1].recreate_swapchain,
                           window_skipped \/ render_context = None
                             \/ render_context[1].previous_frame_end = None,
                           rec_ok, n, acq, idx, sub)
          /\ draw_frame(rec_ok, n, acq, idx, sub)
    /\ panicked' = (ret'.val = "Err")
    /\ input' = IF ret'.val = "Err" THEN input ELSE prepare_for_next_frame(input)
    /\ UNCHANGED <<window, slotVars, scenario, loadVars, chainVars, startVars,
                   render_targets, targets_call, last_key_event>>

\* ------------------------------- render_context.rs: frame slots and the GPU
FenceIds == 0..(MaxFences - 1)

NoFrame == [image_index |-> -1, handle |-> -1, sub |-> "", fence |-> -1,
            draws |-> <<>>, chain |-> <<>>, ubo |-> None, builder |-> None]

\* resources.rs GPUMesh; a buffer is modelled by the number of its elements
GPUMesh(vertex_buffer, index_buffer, vertex_count, index_count) ==
    [vertex_buffer |-> vertex_buffer, index_buffer |-> index_buffer,
     vertex_count |-> vertex_count, index_count |-> index_count]

\* The mesh of the end-to-end scenario: one triangle, 3 vertices, 3 indices
Triangle == GPUMesh(3, 3, 3, 3)

\* The frame indices the end-to-end scenario expects of its five updates
ScenarioSlots == <<0, 1, 0, 1, 0>>

\* A mesh of four vertices and six indices
Quad == GPUMesh(4, 6, 4, 6)

\* Mutant of draw: the draw covers as many indices as the mesh has vertices
draw_vertex_count(res) ==
    [k \in 1..Len(res.meshes) |->
        [vertex_buffer |-> res.meshes[k].vertex_buffer,
         index_buffer |-> res.meshes[k].index_buffer,
         index_count |-> res.meshes[k].vertex_count,
         instance_count |-> 1, first_index |-> 0,
         vertex_offset |-> 0, first_instance |-> 0]]

\* ActiveFrame::draw: for each mesh in the order of resources.meshes, its
\* vertex and index buffers are bound and draw_indexed(index_count, 1, 0, 0, 0)
\* is recorded
draw(res) ==
    [k \in 1..Len(res.meshes) |->
        [vertex_buffer |-> res.meshes[k].vertex_buffer,
         index_buffer |-> res.meshes[k].index_buffer,
         index_count |-> res.meshes[k].index_count,
         instance_count |-> 1, first_index |-> 0,
         vertex_offset |-> 0, first_instance |-> 0]]

\* Is some submitted frame that uses slot s still executing on the GPU
slot_busy(s) ==
    \E f \in FenceIds : gpu[f].state = "executing" /\ gpu[f].slot = s

\* A fence no slot refers to any more: its id is free again once signaled
release(g, f) ==
    IF g[f].state = "signaled" THEN [g EXCEPT ![f].state = "unused"] ELSE g

referenced(rc, f) == \E s \in Slots : rc.frames[s].in_flight_future = Some(f)

\* The GPU finishes a submission and signals its fence
gpu_complete ==
    /\ \E f \in FenceIds :
          /\ gpu[f].state = "executing"
          /\ gpu' = IF referenced(rcx, f)
                    THEN [gpu EXCEPT ![f].state = "signaled"]
                    ELSE [gpu EXCEPT ![f].state = "unused"]
    /\ UNCHANGED <<auxVars, window, drawFrameVars, panicked, rcx, pc, frame, last_frame, result,
                   scenario, loadVars, chainVars, startVars>>

\* VulkanSwapchain::recreate, then the viewport and the flag, at the start of
\* an update whose recreate_swapchain is set
recreate_chain(rc, window_size, n) ==
    [rc EXCEPT !.swapchain = recreate(rc.swapchain, window_size, n),
               !.viewport = window_size,
               !.recreate_swapchain = FALSE]

\* The update up to image acquisition: skip, recreate, acquire_next_image
begin_frame ==
    /\ ~panicked
    /\ pc = "idle"
    /\ \E rec_ok \in BOOLEAN, n \in ImageCounts, acq \in AcquireResults,
          idx \in 0..(MaxImages - 1) :
        /\ answers_asked(rcx.recreate_swapchain, window_skipped,
                         rec_ok, n, acq, idx, "Ok")
        /\ scenario' = IF \/ scenario = None
                           \/ window_skipped \/ rcx.recreate_swapchain \/ acq # "Ok"
                        THEN None
                        ELSE IF scenario[1].updates = Len(ScenarioSlots)
                        THEN None
                        ELSE scenario
        /\ IF window_skipped
           THEN /\ result' = Ret("Ok", "skipping draw frame")
                /\ UNCHANGED <<rcx, pc, frame, panicked>>
           ELSE IF rcx.recreate_swapchain /\ ~rec_ok
           THEN /\ result' = Ret("Err", "")
                /\ panicked' = TRUE
                /\ UNCHANGED <<rcx, pc, frame>>
           ELSE
             LET rc1 == IF rcx.recreate_swapchain
                        THEN recreate_chain(rcx, inner_size, n)
                        ELSE rcx
                 rc2 == acquire_block(rc1, acq)
             IN IF acq = "OutOfDate"
                THEN /\ rcx' = rc2
                     /\ result' = Ret("Ok", "")
                     /\ UNCHANGED <<pc, frame, panicked>>
                ELSE IF acq = "Err"
                THEN /\ rcx' = rc2
                     /\ result' = Ret("Err", "Failed to acquire next image")
                     /\ panicked' = TRUE
                     /\ UNCHANGED <<pc, frame>>
                ELSE /\ idx < rc1.swapchain.image_count
                     /\ rcx' = rc2
                     /\ frame' = [NoFrame EXCEPT !.image_index = idx,
                                                 !.handle = rc1.swapchain.handle]
                     /\ pc' = "wait_slot"
                     /\ UNCHANGED <<result, panicked>>
    /\ UNCHANGED <<auxVars, window, drawFrameVars, gpu, last_frame, loadVars, chainVars, startVars>>

\* Wait on the slot's pending completion signal, if any, then clear it
wait_for_slot ==
    /\ pc = "wait_slot"
    /\ LET fut == rcx.frames[rcx.current_frame].in_flight_future
       IN IF fut = None
          THEN UNCHANGED <<rcx, gpu>>
          ELSE /\ gpu[fut[1]].state = "signaled"
               /\ rcx' = [rcx EXCEPT !.frames[rcx.current_frame].in_flight_future = None]
               /\ gpu' = release(gpu, fut[1])
    /\ pc' = "record"
    /\ UNCHANGED <<auxVars, window, drawFrameVars, panicked, frame, last_frame, result,
                   scenario, loadVars, chainVars, startVars>>

\* Mat4::perspective_rh(45 degrees, aspect_ratio, 0.5, 20.0), its terms in
\* thousandths: h = cot(22.5 degrees), w = h / aspect_ratio where the aspect
\* ratio is extent[0] / extent[1], r = z_far / (z_near - z_far)
perspective_rh(extent) ==
    LET h == 2414
        w == (h * extent[2]) \div extent[1]
        r == -1026
    IN [x_axis |-> <<w, 0, 0, 0>>,
        y_axis |-> <<0, h, 0, 0>>,
        z_axis |-> <<0, 0, r, -1000>>,
        w_axis |-> <<0, 0, -513, 0>>]

\* Mutant of update_uniform_buffer: the projection is written as computed
update_uniform_buffer_no_flip(rc) ==
    [proj |-> perspective_rh(rc.viewport)]

\* RenderContext::update_uniform_buffer: the projection for the viewport's
\* aspect ratio with proj.y_axis.y *= -1.0 (model and view do not depend on
\* the RenderContext's frame state and are left out)
update_uniform_buffer(rc) ==
    LET proj == perspective_rh(rc.viewport)
    IN [proj |-> [proj EXCEPT !.y_axis[2] = @ * (-1)]]

\* RenderContext::build_command_buffer: rendering begins over the chain's
\* extent, with the viewport set and the slot's descriptor sets bound
build_command_buffer(rc) ==
    [render_area_extent |-> rc.swapchain.extent,
     viewport |-> rc.viewport,
     descriptor_sets |-> rc.current_frame]

\* RenderContext::update_uniform_buffer writes the slot's uniform buffer,
\* build_command_buffer binds the slot's descriptor sets, ActiveFrame::draw
record_frame ==
    /\ pc = "record"
    /\ last_frame' = Some([slot |-> rcx.current_frame, sub |-> "", waited |-> FALSE])
    /\ frame' = [frame EXCEPT !.ubo = Some(update_uniform_buffer(rcx)),
                              !.builder = Some(build_command_buffer(rcx)),
                              !.draws = draw(resources)]
    /\ pc' = "submit"
    /\ UNCHANGED <<auxVars, window, drawFrameVars, panicked, rcx, gpu, result,
                   scenario, loadVars, chainVars, startVars>>

\* Mutant of execute_outcome: the fence of a successful submission is dropped
execute_outcome_drops_fence(rc, sub, f) ==
    CASE sub = "OutOfDate" ->
           [rc EXCEPT !.recreate_swapchain = TRUE,
                      !.frames[rc.current_frame].in_flight_future = None]
      [] OTHER -> rc

\* Mutant of execute_outcome: OutOfDate clears the slot but sets no flag
execute_outcome_ood_no_flag(rc, sub, f) ==
    CASE sub = "Ok" ->
           [rc EXCEPT !.frames[rc.current_frame].in_flight_future = Some(f)]
      [] OTHER -> rc

\* Mutant of execute_outcome: every submission error is handled as OutOfDate
execute_outcome_any_error_stale(rc, sub, f) ==
    CASE sub = "Ok" ->
           [rc EXCEPT !.frames[rc.current_frame].in_flight_future = Some(f)]
      [] OTHER ->
           [rc EXCEPT !.recreate_swapchain = TRUE,
                      !.frames[rc.current_frame].in_flight_future = None]

\* Mutant of execute_outcome: the slot keeps a fence that was not submitted
execute_outcome_stores_other_fence(rc, sub, f) ==
    CASE sub = "Ok" ->
           [rc EXCEPT !.frames[rc.current_frame].in_flight_future =
                         Some((f + 1) % MaxFences)]
      [] sub = "OutOfDate" ->
           [rc EXCEPT !.recreate_swapchain = TRUE,
                      !.frames[rc.current_frame].in_flight_future = None]
      [] OTHER -> rc

\* ActiveFrame::execute_command_buffer, the match on the flushed future
execute_outcome(rc, sub, f) ==
    CASE sub = "Ok" ->
           [rc EXCEPT !.frames[rc.current_frame].in_flight_future = Some(f)]
      [] sub = "OutOfDate" ->
           [rc EXCEPT !.recreate_swapchain = TRUE,
                      !.frames[rc.current_frame].in_flight_future = None]
      [] OTHER -> rc

\* A future chain is the sequence of its steps, first to run first. The
\* acquire future of the image the update acquired:
acquire_future(image_index) == <<[op |-> "acquire", arg |-> image_index]>>

\* GpuFuture::then_execute: the command buffer runs after the future
then_execute(future, command_buffer) ==
    Append(future, [op |-> "execute", arg |-> command_buffer])

\* GpuFuture::then_swapchain_present: the image is presented after the future
then_swapchain_present(future, image_index) ==
    Append(future, [op |-> "present", arg |-> image_index])

\* GpuFuture::then_signal_fence_and_flush: the fence is signaled after the
\* future, and the chain is handed to the queue
then_signal_fence_and_flush(future, fence) ==
    Append(future, [op |-> "signal_fence", arg |-> fence])

\* Mutant of execution_future: the image is presented before the commands run
execution_future_present_first(fr, fence) ==
    then_signal_fence_and_flush(
        then_execute(
            then_swapchain_present(acquire_future(fr.image_index), fr.image_index),
            Len(fr.draws)),
        fence)

\* The chain ActiveFrame::execute_command_buffer builds from the frame's
\* acquire future, its command buffer (modelled by its number of draws) and
\* its image index
execution_future(fr, fence) ==
    then_signal_fence_and_flush(
        then_swapchain_present(
            then_execute(acquire_future(fr.image_index), Len(fr.draws)),
            fr.image_index),
        fence)

\* ActiveFrame::execute_command_buffer: acquire -> execute -> present ->
\* signal fence, flushed to the queue; f is the fence of the new submission
execute_command_buffer ==
    /\ pc = "submit"
    /\ \E sub \in SubmitResults :
          LET f == CHOOSE x \in FenceIds : gpu[x].state = "unused" /\
                       \A y \in FenceIds : gpu[y].state = "unused" => x <= y
              old == rcx.frames[rcx.current_frame].in_flight_future
              g1 == IF sub = "Ok"
                    THEN [gpu EXCEPT ![f] = [state |-> "executing",
                                             slot |-> rcx.current_frame]]
                    ELSE gpu
              rc1 == execute_outcome(rcx, sub, f)
          IN /\ \E x \in FenceIds : gpu[x].state = "unused"
             /\ rcx' = rc1
             /\ gpu' = IF old # None /\ ~referenced(rc1, old[1])
                       THEN release(g1, old[1])
                       ELSE g1
             /\ frame' = [frame EXCEPT !.sub = sub,
                                       !.fence = IF sub = "Ok" THEN f ELSE -1,
                                       !.chain = execution_future(frame,
                                                    IF sub = "Ok" THEN f ELSE -1)]
             /\ last_frame' = Some([last_frame[1] EXCEPT !.sub = sub])
             /\ scenario' = IF scenario = None \/ sub # "Ok"
                             THEN None
                             ELSE Some([scenario[1] EXCEPT !.submitted =
                                          Append(@, rcx.current_frame)])
    /\ pc' = "drop"
    /\ UNCHANGED <<auxVars, window, drawFrameVars, panicked, result, loadVars, chainVars, startVars>>

\* Mutant of drop_outcome: the frame index advances at every drop
drop_outcome_always_advances(rc, wait_ok) ==
    [rc EXCEPT !.current_frame = (rc.current_frame + 1) % MAX_FRAMES_IN_FLIGHT]

\* Mutant of drop_outcome: the frame index is never advanced
drop_outcome_never_advances(rc, wait_ok) ==
    rc

\* Mutant of drop_outcome: the index advances after any wait that did not
\* fail, whether or not the slot holds a fence
drop_outcome_advances_without_fence(rc, wait_ok) ==
    IF wait_ok
    THEN [rc EXCEPT !.current_frame = (rc.current_frame + 1) % MAX_FRAMES_IN_FLIGHT]
    ELSE rc

\* impl Drop for ActiveFrame, given whether the fence wait succeeded
drop_outcome(rc, wait_ok) ==
    IF rc.frames[rc.current_frame].in_flight_future # None /\ wait_ok
    THEN [rc EXCEPT !.current_frame = (rc.current_frame + 1) % MAX_FRAMES_IN_FLIGHT]
    ELSE rc

\* Mutant of drop_active_frame: the fence wait returns Ok without waiting for
\* the GPU
drop_active_frame_not_blocking ==
    /\ pc = "drop"
    /\ LET fut == rcx.frames[rcx.current_frame].in_flight_future
       IN \E wait_ok \in BOOLEAN :
             /\ (fut = None) => wait_ok
             /\ rcx' = drop_outcome(rcx, wait_ok)
             /\ result' = Ret(submit_ret(frame.sub),
                              IF wait_ok THEN "" ELSE "Failed to wait for fence future")
             /\ last_frame' = Some([last_frame[1] EXCEPT
                                      !.waited = (fut # None /\ wait_ok)])
             /\ scenario' = IF scenario = None \/ ~wait_ok
                             THEN None
                             ELSE Some([scenario[1] EXCEPT !.updates = @ + 1])
    /\ panicked' = (submit_ret(frame.sub) = "Err")
    /\ pc' = "idle"
    /\ frame' = NoFrame
    /\ UNCHANGED <<auxVars, window, drawFrameVars, gpu, loadVars, chainVars, startVars>>

\* The ActiveFrame goes out of scope (Drop runs) and the update returns what
\* execute_command_buffer returned; Application::on_update panics on Err.
drop_active_frame ==
    /\ pc = "drop"
    /\ LET fut == rcx.frames[rcx.current_frame].in_flight_future
       IN \E wait_ok \in BOOLEAN :
             /\ (fut # None /\ wait_ok) => gpu[fut[1]].state = "signaled"
             /\ (fut = None) => wait_ok
             /\ rcx' = drop_outcome(rcx, wait_ok)
             /\ result' = Ret(submit_ret(frame.sub),
                              IF wait_ok THEN "" ELSE "Failed to wait for fence future")
             /\ last_frame' = Some([last_frame[1] EXCEPT
                                      !.waited = (fut # None /\ wait_ok)])
             /\ scenario' = IF scenario = None \/ ~wait_ok
                             THEN None
                             ELSE Some([scenario[1] EXCEPT !.updates = @ + 1])
    /\ panicked' = (submit_ret(frame.sub) = "Err")
    /\ pc' = "idle"
    /\ frame' = NoFrame
    /\ UNCHANGED <<auxVars, window, drawFrameVars, gpu, loadVars, chainVars, startVars>>

\* ------------------------------------ resources.rs / buffers.rs: uploads
\* A scene has at most MaxAssets primitives and at most MaxAssets textures.
MaxAssets == 2
\* Texture widths and heights are 1..MaxDim (and the 512x256 example).
MaxDim == 3

\* (vertex count, index count) of the primitives a scene may hold
MeshSizes == {<<3, 3>>, <<4, 6>>}
TextureSizes == ((1..MaxDim) \X (1..MaxDim)) \cup {<<512, 256>>}

\* What an upload call returns: Ok or Err, and the identifier it hands back
Returned(val, id) == [val |-> val, id |-> id]

\* The locals of an upload call: op is "upload_mesh", "upload_texture" or
\* "create_mesh"; args are (vertices, indices) or (width, height); stage is
\* the one-time command buffer the call is at; waiting: it has been flushed;
\* linear: what the device answered for SAMPLED_IMAGE_FILTER_LINEAR, if asked
Call(op, args, levels) ==
    [op |-> op, args |-> args, stage |-> 1, waiting |-> FALSE,
     mip_levels |-> levels, linear |-> None, blits |-> <<>>, ret |-> None]

\* The copies an upload submits, in order, each followed by a fence wait:
\* create_vertex_buffer and create_index_buffer, or copy_buffer_to_image and
\* generate_mipmaps
Stages(op) ==
    IF op = "upload_texture" THEN <<"image", "mipmaps">> ELSE <<"vertex", "index">>

\* u32::ilog2: the position of the highest set bit
RECURSIVE bit_length(_)
bit_length(n) == IF n = 0 THEN 0 ELSE 1 + bit_length(n \div 2)

ilog2(n) == bit_length(n) - 1

\* std::cmp::max
max(a, b) == IF a >= b THEN a ELSE b

\* Mutant of mip_levels: one level more than the halvings need
mip_levels_one_more(width, height) == ilog2(max(width, height)) + 2

\* Mutant of mip_levels: the height is not looked at
mip_levels_from_width(width, height) == ilog2(width) + 1

\* upload_texture, `let mip_levels = max(width, height).ilog2() + 1`
mip_levels(width, height) == ilog2(max(width, height)) + 1

\* Mutant of next_mip: the halved dimension is not clamped to 1
next_mip_unclamped(d) == d \div 2

\* generate_mipmaps, `if mip_width > 1 { mip_width / 2 } else { 1 }`
next_mip(d) == IF d > 1 THEN d \div 2 ELSE 1

\* generate_mipmaps, the loop `for level in 1..image.mip_levels()`: one blit
\* from level - 1 to level, then mip_width and mip_height take the new values
RECURSIVE blit_loop(_, _, _, _)
blit_loop(level, levels, mip_width, mip_height) ==
    IF level >= levels
    THEN <<>>
    ELSE <<[src_level |-> level - 1,
            src |-> <<mip_width, mip_height>>,
            dst_level |-> level,
            dst |-> <<next_mip(mip_width), next_mip(mip_height)>>]>>
         \o blit_loop(level + 1, levels, next_mip(mip_width), next_mip(mip_height))

\* Mutant of generate_mipmaps: the format's features are not checked
generate_mipmaps_unchecked(extent, levels, linear) ==
    [ok |-> TRUE, blits |-> blit_loop(1, levels, extent[1], extent[2])]

\* generate_mipmaps up to end_single_time_commands: the format check, then
\* the blits recorded; linear is SAMPLED_IMAGE_FILTER_LINEAR of the format
generate_mipmaps(extent, levels, linear) ==
    IF ~linear
    THEN [ok |-> FALSE, blits |-> <<>>]
    ELSE [ok |-> TRUE, blits |-> blit_loop(1, levels, extent[1], extent[2])]

\* Mutant of wait: the call goes on without waiting for the fence
wait_not_blocking(inflight, copy) == TRUE

\* end_single_time_commands, `.wait(None)`: returns Ok once the fence of the
\* submitted copy has signaled
wait(inflight, copy) == copy \notin inflight

\* resources.rs GPUTexture; the image view is modelled by the mip levels of
\* the image it views
GPUTexture(levels) == [image_view |-> [mip_levels |-> levels]]

\* Mutant of upload_mesh: the two counts are stored in each other's field
upload_mesh_swapped_counts(res, vertices, indices) ==
    [res EXCEPT !.meshes = Append(@, GPUMesh(vertices, indices, indices, vertices))]

\* VulkanResources::upload_mesh, from `let mesh = GPUMesh {` to the push
upload_mesh(res, vertices, indices) ==
    [res EXCEPT !.meshes = Append(@, GPUMesh(vertices, indices, vertices, indices))]

\* VulkanResources::get_mesh: meshes.get(mesh_id)
get_mesh(res, mesh_id) ==
    IF mesh_id >= 0 /\ mesh_id < Len(res.meshes)
    THEN Some(res.meshes[mesh_id + 1])
    ELSE None

\* VulkanResources::upload_texture, from `let texture = GPUTexture {` to the push
upload_texture(res, levels) ==
    [res EXCEPT !.textures = Append(@, GPUTexture(levels))]

\* Mutant of create_mesh: the new mesh is put in front of the others
create_mesh_inserts_first(mgr, vertices, indices) ==
    [mgr EXCEPT !.meshes = <<GPUMesh(vertices, indices, vertices, indices)>> \o @]

\* VulkanResourceManager::create_mesh, from `let mesh = RenderMesh {` to the push
create_mesh(mgr, vertices, indices) ==
    [mgr EXCEPT !.meshes = Append(@, GPUMesh(vertices, indices, vertices, indices))]

\* VulkanResourceManager::create_mesh, `Ok(self.meshes.len() - 1)`
create_mesh_id(mgr) == Len(mgr.meshes) - 1

\* The value a call that reached its end returns
upload_ret(op, mgr) ==
    IF op = "create_mesh"
    THEN Returned("Ok", Some(create_mesh_id(mgr)))
    ELSE Returned("Ok", None)

\* ------------------------------------------- application/mod.rs: the load
\* Where Application::run stands: phase is "init" (not called), "loading"
\* (in the loops over primitives and textures), "running" (renderer.run()
\* called) or "manager" (a build on VulkanResourceManager, which run does not
\* drive); scene holds the primitives and the textures with an image the
\* loaded model has, left those the loops have yet to reach, results what
\* each upload call returned
LoadState(phase, primitives, textures) ==
    [phase |-> phase,
     scene |-> [primitives |-> primitives, textures |-> textures],
     left |-> [primitives |-> primitives, textures |-> textures],
     results |-> <<>>]

\* Application::run up to the loops: asset_loader.load succeeds with a model
\* of np primitives and nt textures, or fails and is logged
run_load ==
    /\ load.phase = "init"
    /\ \E ok \in BOOLEAN, np \in 0..MaxAssets, nt \in 0..MaxAssets :
          /\ ~ok => (np = 0 /\ nt = 0)
          /\ load' = LoadState("loading", np, nt)
    /\ UNCHANGED <<auxVars, window, drawFrameVars, panicked, slotVars, scenario, chainVars, startVars,
                   resources, manager, upload, in_flight>>

\* Application::run, `renderer.upload_mesh(&primitive.vertices, &primitive.indices)`
run_upload_mesh ==
    /\ load.phase = "loading"
    /\ upload = None
    /\ load.left.primitives > 0
    /\ \E sz \in MeshSizes : upload' = Some(Call("upload_mesh", sz, 0))
    /\ load' = [load EXCEPT !.left.primitives = @ - 1]
    /\ UNCHANGED <<auxVars, window, drawFrameVars, panicked, slotVars, scenario, chainVars, startVars,
                   resources, manager, in_flight>>

\* Application::run, `renderer.upload_texture(&image.pixels, image.width,
\* image.height, ...)`; upload_texture starts by computing mip_levels
run_upload_texture ==
    /\ load.phase = "loading"
    /\ upload = None
    /\ load.left.primitives = 0
    /\ load.left.textures > 0
    /\ \E sz \in TextureSizes :
          upload' = Some(Call("upload_texture", sz, mip_levels(sz[1], sz[2])))
    /\ load' = [load EXCEPT !.left.textures = @ - 1]
    /\ UNCHANGED <<auxVars, window, drawFrameVars, panicked, slotVars, scenario, chainVars, startVars,
                   resources, manager, in_flight>>

\* A caller of VulkanResourceManager::create_mesh
call_create_mesh ==
    /\ load.phase = "manager"
    /\ upload = None
    /\ Len(manager.meshes) < MaxAssets
    /\ \E sz \in MeshSizes : upload' = Some(Call("create_mesh", sz, 0))
    /\ UNCHANGED <<auxVars, window, drawFrameVars, panicked, slotVars, scenario, chainVars, startVars,
                   resources, manager, load, in_flight>>

\* One copy of an upload, up to its submission: the staging buffer, the
\* destination, the one-time command buffer recorded, built, executed and
\* flushed. ok: none of these calls failed. For the mipmaps of a texture the
\* format check and the blits come first.
upload_submit ==
    /\ upload # None
    /\ upload[1].ret = None
    /\ ~upload[1].waiting
    /\ LET u == upload[1]
           st == Stages(u.op)[u.stage]
       IN \E ok \in BOOLEAN, linear \in BOOLEAN :
             LET mips == generate_mipmaps(u.args, u.mip_levels, linear)
             IN /\ (st # "mipmaps") => linear
                /\ ~linear => ok
                /\ IF st = "mipmaps" /\ ~mips.ok
                   THEN /\ upload' = Some([u EXCEPT !.ret = Some(Returned("Err", None)),
                                                    !.linear = Some(linear),
                                                    !.blits = mips.blits])
                        /\ UNCHANGED in_flight
                   ELSE IF ~ok
                   THEN /\ upload' = Some([u EXCEPT
                                 !.ret = Some(Returned("Err", None)),
                                 !.linear = IF st = "mipmaps" THEN Some(linear) ELSE @,
                                 !.blits = IF st = "mipmaps" THEN mips.blits ELSE @])
                        /\ UNCHANGED in_flight
                   ELSE /\ upload' = Some([u EXCEPT
                                 !.waiting = TRUE,
                                 !.linear = IF st = "mipmaps" THEN Some(linear) ELSE @,
                                 !.blits = IF st = "mipmaps" THEN mips.blits ELSE @])
                        /\ in_flight' = in_flight \cup {st}
    /\ UNCHANGED <<auxVars, window, drawFrameVars, panicked, slotVars, scenario, chainVars, startVars,
                   resources, manager, load>>

\* The GPU finishes a copy and signals its fence
gpu_copy_complete ==
    /\ \E c \in in_flight : in_flight' = in_flight \ {c}
    /\ UNCHANGED <<auxVars, window, drawFrameVars, panicked, slotVars, scenario, chainVars, startVars,
                   resources, manager, load, upload>>

\* Mutant of upload_wait: the texture is pushed before its image view and
\* sampler are created
upload_wait_pushes_before_view ==
    /\ upload # None
    /\ upload[1].ret = None
    /\ upload[1].waiting
    /\ LET u == upload[1]
           st == Stages(u.op)[u.stage]
           last == u.stage = Len(Stages(u.op))
       IN \E ok \in BOOLEAN, fin \in BOOLEAN :
             /\ (~ok \/ ~last \/ u.op # "upload_texture") => fin
             /\ IF ~ok
                THEN /\ upload' = Some([u EXCEPT !.ret = Some(Returned("Err", None))])
                     /\ in_flight' = {}
                     /\ UNCHANGED <<resources, manager>>
                ELSE /\ wait(in_flight, st)
                     /\ UNCHANGED in_flight
                     /\ IF ~last
                        THEN /\ upload' = Some([u EXCEPT !.stage = @ + 1,
                                                         !.waiting = FALSE])
                             /\ UNCHANGED <<resources, manager>>
                        ELSE IF ~fin
                        THEN /\ upload' = Some([u EXCEPT !.ret =
                                                   Some(Returned("Err", None))])
                             /\ resources' = upload_texture(resources, u.mip_levels)
                             /\ UNCHANGED manager
                        ELSE /\ resources' =
                                  CASE u.op = "upload_mesh" ->
                                         upload_mesh(resources, u.args[1], u.args[2])
                                    [] u.op = "upload_texture" ->
                                         upload_texture(resources, u.mip_levels)
                                    [] OTHER -> resources
                             /\ manager' =
                                  IF u.op = "create_mesh"
                                  THEN create_mesh(manager, u.args[1], u.args[2])
                                  ELSE manager
                             /\ upload' = Some([u EXCEPT !.ret =
                                                   Some(upload_ret(u.op, manager'))])
    /\ UNCHANGED <<auxVars, window, drawFrameVars, panicked, slotVars, scenario, chainVars, startVars, load>>

\* The fence wait of the copy submitted last and what follows it: the next
\* copy, or the end of the call (a texture's image view and sampler, the
\* push, the return). ok: the wait succeeded; a wait without timeout fails
\* only with the device lost, which ends the device's work. fin: the image
\* view and the sampler were created.
upload_wait ==
    /\ upload # None
    /\ upload[1].ret = None
    /\ upload[1].waiting
    /\ LET u == upload[1]
           st == Stages(u.op)[u.stage]
           last == u.stage = Len(Stages(u.op))
       IN \E ok \in BOOLEAN, fin \in BOOLEAN :
             /\ (~ok \/ ~last \/ u.op # "upload_texture") => fin
             /\ IF ~ok
                THEN /\ upload' = Some([u EXCEPT !.ret = Some(Returned("Err", None))])
                     /\ in_flight' = {}
                     /\ UNCHANGED <<resources, manager>>
                ELSE /\ wait(in_flight, st)
                     /\ UNCHANGED in_flight
                     /\ IF ~last
                        THEN /\ upload' = Some([u EXCEPT !.stage = @ + 1,
                                                         !.waiting = FALSE])
                             /\ UNCHANGED <<resources, manager>>
                        ELSE IF ~fin
                        THEN /\ upload' = Some([u EXCEPT !.ret =
                                                   Some(Returned("Err", None))])
                             /\ UNCHANGED <<resources, manager>>
                        ELSE /\ resources' =
                                  CASE u.op = "upload_mesh" ->
                                         upload_mesh(resources, u.args[1], u.args[2])
                                    [] u.op = "upload_texture" ->
                                         upload_texture(resources, u.mip_levels)
                                    [] OTHER -> resources
                             /\ manager' =
                                  IF u.op = "create_mesh"
                                  THEN create_mesh(manager, u.args[1], u.args[2])
                                  ELSE manager
                             /\ upload' = Some([u EXCEPT !.ret =
                                                   Some(upload_ret(u.op, manager'))])
    /\ UNCHANGED <<auxVars, window, drawFrameVars, panicked, slotVars, scenario, chainVars, startVars, load>>

\* Mutant of after_upload: the loops are left at the first failed upload
after_upload_stops_at_error(ld, val) ==
    IF val = "Err"
    THEN [ld EXCEPT !.results = Append(@, val),
                    !.left = [primitives |-> 0, textures |-> 0]]
    ELSE [ld EXCEPT !.results = Append(@, val)]

\* Application::run, `if let Err(e) = renderer.upload_...(...) { error!(...) }`:
\* a failure is logged and the loop goes on with the next asset
after_upload(ld, val) ==
    [ld EXCEPT !.results = Append(@, val)]

\* The upload call returns to its caller
upload_return ==
    /\ upload # None
    /\ upload[1].ret # None
    /\ upload' = None
    /\ load' = IF load.phase = "loading"
               THEN after_upload(load, upload[1].ret[1].val)
               ELSE load
    /\ UNCHANGED <<auxVars, window, drawFrameVars, panicked, slotVars, scenario, chainVars, startVars,
                   resources, manager, in_flight>>

\* Application::run after the loops: `renderer.run()`
run_renderer ==
    /\ load.phase = "loading"
    /\ upload = None
    /\ load.left.primitives = 0
    /\ load.left.textures = 0
    /\ load' = [load EXCEPT !.phase = "running"]
    /\ UNCHANGED <<auxVars, window, drawFrameVars, panicked, slotVars, scenario, chainVars, startVars,
                   resources, manager, upload, in_flight>>

\* --------------------------------------------- swapchain.rs: VulkanSwapchain
\* The window sizes a chain can be built for
Extents == {sz \in Sizes : sz[1] > 0 /\ sz[2] > 0}

\* A (format, colour space) pair as surface_formats reports it
SurfaceFormat(f, c) == <<f, c>>

\* The lists surface_formats answers with: the driver reports at least one
\* pair; R8G8B8A8_SRGB with SrgbNonLinear is absent, first, second or third,
\* and R8G8B8A8_SRGB may come with another colour space
FormatLists ==
    { <<SurfaceFormat("B8G8R8A8_UNORM", "SrgbNonLinear")>>,
      <<SurfaceFormat("R8G8B8A8_SRGB", "SrgbNonLinear")>>,
      <<SurfaceFormat("B8G8R8A8_UNORM", "SrgbNonLinear"),
        SurfaceFormat("R8G8B8A8_SRGB", "SrgbNonLinear")>>,
      <<SurfaceFormat("R8G8B8A8_SRGB", "ExtendedSrgbLinear"),
        SurfaceFormat("B8G8R8A8_UNORM", "SrgbNonLinear")>>,
      <<SurfaceFormat("B8G8R8A8_UNORM", "SrgbNonLinear"),
        SurfaceFormat("R8G8B8A8_SRGB", "ExtendedSrgbLinear"),
        SurfaceFormat("R8G8B8A8_SRGB", "SrgbNonLinear")>> }

\* The lists surface_capabilities.compatible_present_modes holds
PresentModeLists ==
    { <<>>, <<"Fifo">>, <<"Fifo", "Immediate">>, <<"Immediate", "Mailbox", "Fifo">> }

\* What the driver answers for the surface: its formats, the minimum image
\* count and the compatible present modes of its capabilities, and how many
\* images beyond the requested minimum it makes for a chain of a given
\* extent. Asked twice the same, it answers the same.
Surfaces ==
    [min_image_count : 1..MaxImages, extra : [Extents -> 0..1],
     formats : FormatLists, compatible_present_modes : PresentModeLists]

\* The images the driver makes for a chain created with create_info
driver_images(srf, create_info) ==
    create_info.min_image_count + srf.extra[create_info.image_extent]

\* Iterator::find: the first element of a sequence that satisfies the
\* closure, None when there is none; tests[i] is what the closure answers
\* for element i
find(s, tests) ==
    LET hits == {i \in DOMAIN s : tests[i]}
    IN IF hits = {} THEN None
       ELSE Some(s[CHOOSE i \in hits : \A j \in hits : i <= j])

\* Mutant of image_format: the first reported format, whatever the list holds
image_format_first(formats) ==
    formats[1][1]

\* The image format chosen from the surface's formats: that of the first
\* pair that is R8G8B8A8_SRGB with SrgbNonLinear, else that of formats[0];
\* the pair's colour space is dropped
image_format(formats) ==
    LET found == find(formats,
                      [i \in DOMAIN formats |->
                          /\ formats[i][1] = "R8G8B8A8_SRGB"
                          /\ formats[i][2] = "SrgbNonLinear"])
    IN IF found # None THEN found[1][1] ELSE formats[1][1]

\* Mutant of present_mode: Mailbox is taken only when it is listed first
present_mode_first_only(modes) ==
    IF modes # <<>> /\ modes[1] = "Mailbox" THEN "Mailbox" ELSE "Fifo"

\* The present mode chosen from compatible_present_modes: Mailbox when it is
\* found in the list, Fifo otherwise
present_mode(modes) ==
    LET found == find(modes, [i \in DOMAIN modes |-> modes[i] = "Mailbox"])
    IN IF found # None THEN found[1] ELSE "Fifo"

\* VulkanSwapchain::new: min_image_count is the larger of the surface's
\* minimum and MAX_FRAMES_IN_FLIGHT, image_format and present_mode are chosen
\* from what the surface reports, image_extent is the window size; one image
\* view per image; format and extent are the swapchain's
VulkanSwapchain_new(srf, window_size) ==
    LET create_info ==
            [min_image_count |-> max(srf.min_image_count, MAX_FRAMES_IN_FLIGHT),
             image_format |-> image_format(srf.formats),
             image_extent |-> window_size,
             present_mode |-> present_mode(srf.compatible_present_modes)]
    IN [swapchain |-> [handle |-> 0, create_info |-> create_info],
        image_views |-> driver_images(srf, create_info),
        format |-> create_info.image_format,
        extent |-> create_info.image_extent]

\* Mutant of VulkanSwapchain_recreate: the recorded extent is read from the
\* chain being replaced
VulkanSwapchain_recreate_stale_extent(srf, v, window_size) ==
    LET create_info == [v.swapchain.create_info EXCEPT !.image_extent = window_size]
    IN [swapchain |-> [handle |-> (v.swapchain.handle + 1) % NumHandles,
                       create_info |-> create_info],
        image_views |-> driver_images(srf, create_info),
        format |-> v.format,
        extent |-> v.swapchain.create_info.image_extent]

\* VulkanSwapchain::recreate when the driver's recreate succeeds: the old
\* chain's create info with image_extent replaced, a new handle, one image
\* view per new image, extent = window_size
VulkanSwapchain_recreate(srf, v, window_size) ==
    LET create_info == [v.swapchain.create_info EXCEPT !.image_extent = window_size]
    IN [swapchain |-> [handle |-> (v.swapchain.handle + 1) % NumHandles,
                       create_info |-> create_info],
        image_views |-> driver_images(srf, create_info),
        format |-> v.format,
        extent |-> window_size]

\* A caller builds the chain for the window's size
swapchain_new ==
    /\ surface # None
    /\ vsc = None
    /\ \E window_size \in Extents :
          vsc' = Some(VulkanSwapchain_new(surface[1], window_size))
    /\ UNCHANGED <<auxVars, window, drawFrameVars, panicked, slotVars, scenario, loadVars,
                   surface, calls, startVars>>

\* VulkanSwapchain::recreate when it returns an error: from the driver's
\* recreate, before anything is assigned, or from create_image_views, after
\* self.swapchain was assigned and before image_views and extent are assigned.
VulkanSwapchain_recreate_err(v, window_size, swapchain_ok) ==
    IF ~swapchain_ok
    THEN v
    ELSE [v EXCEPT !.swapchain =
             [handle |-> (v.swapchain.handle + 1) % NumHandles,
              create_info |-> [v.swapchain.create_info EXCEPT
                                  !.image_extent = window_size]]]

\* A caller calls VulkanSwapchain::recreate(window_size); the driver's
\* recreate succeeds or not (swapchain_ok), and so does the creation of the
\* image views (views_ok). calls keeps the last two calls: the size asked
\* for, the result, and the chain's recorded extent and image view count
\* after the call.
swapchain_recreate ==
    /\ surface # None
    /\ vsc # None
    /\ \E window_size \in Extents, swapchain_ok \in BOOLEAN, views_ok \in BOOLEAN :
          LET ok == swapchain_ok /\ views_ok
              v == IF ok
                   THEN VulkanSwapchain_recreate(surface[1], vsc[1], window_size)
                   ELSE VulkanSwapchain_recreate_err(vsc[1], window_size, swapchain_ok)
              call == [size |-> window_size, ok |-> ok,
                       extent |-> v.extent, image_views |-> v.image_views]
          IN /\ vsc' = Some(v)
             /\ calls' = IF Len(calls) < 2
                         THEN Append(calls, call)
                         ELSE <<calls[2], call>>
    /\ UNCHANGED <<auxVars, window, drawFrameVars, panicked, slotVars, scenario, loadVars,
                   surface, startVars>>

\* ------------------------------------------ physical device and queue family
\* PhysicalDeviceType as the driver reports it
DeviceTypes == {"DiscreteGpu", "IntegratedGpu", "VirtualGpu", "Cpu", "Other"}

\* One queue family of a device: does it have QueueFlags::GRAPHICS, and what
\* does presentation_support answer for the window (an Err counts as false)
QueueFamily(graphics, present) == [graphics |-> graphics, present |-> present]

\* The queue family lists a device is drawn with
FamilyLists ==
    { <<>>,
      <<QueueFamily(TRUE, TRUE)>>,
      <<QueueFamily(TRUE, FALSE)>>,
      <<QueueFamily(FALSE, TRUE), QueueFamily(TRUE, TRUE)>>,
      <<QueueFamily(TRUE, FALSE), QueueFamily(FALSE, TRUE)>>,
      <<QueueFamily(TRUE, FALSE), QueueFamily(TRUE, TRUE)>> }

\* What the driver reports of a physical device: whether its supported
\* extensions contain the required ones, its type, its queue families
PhysicalDevices ==
    [extensions : BOOLEAN, device_type : DeviceTypes, families : FamilyLists]

\* Iterator::position: the 0-based index of the first element of a sequence
\* that satisfies the closure, None when there is none; tests[i] is what the
\* closure answers for element i
position(tests) ==
    LET hits == {i \in DOMAIN tests : tests[i]}
    IN IF hits = {} THEN None
       ELSE Some((CHOOSE i \in hits : \A j \in hits : i <= j) - 1)

\* The closure of VulkanRenderer::new's filter_map: the first queue family
\* with GRAPHICS that can present to the window
graphics_and_present(q) == q.graphics /\ q.present

\* The closure of RenderContext::new's position: the first queue family with
\* GRAPHICS
graphics_only(q) == q.graphics

\* filter + filter_map of VulkanRenderer::new: in enumeration order, the
\* (device, queue family index) pairs of the devices that support the
\* extensions and have a family passing the closure; p is the 0-based
\* position of the device in the enumeration
candidates(devs) ==
    LET family(p) == position([k \in DOMAIN devs[p].families |->
                                  graphics_and_present(devs[p].families[k])])
        passes(p) == devs[p].extensions /\ family(p) # None
        kept == SelectSeq([p \in 1..Len(devs) |-> p], passes)
    IN [k \in 1..Len(kept) |-> [p |-> kept[k] - 1, i |-> family(kept[k])[1]]]

\* Mutant of device_type_key: integrated GPUs rank before discrete ones
device_type_key_integrated_first(t) ==
    CASE t = "DiscreteGpu" -> 1
      [] t = "IntegratedGpu" -> 0
      [] t = "VirtualGpu" -> 2
      [] t = "Cpu" -> 3
      [] t = "Other" -> 4
      [] OTHER -> 5

\* The key closure of min_by_key
device_type_key(t) ==
    CASE t = "DiscreteGpu" -> 0
      [] t = "IntegratedGpu" -> 1
      [] t = "VirtualGpu" -> 2
      [] t = "Cpu" -> 3
      [] t = "Other" -> 4
      [] OTHER -> 5

\* Iterator::min_by_key over the candidates: the first of the elements whose
\* key is least, None for no element
min_by_key(devs, cands) ==
    LET key(k) == device_type_key(devs[cands[k].p + 1].device_type)
        least == {k \in DOMAIN cands : \A j \in DOMAIN cands : key(k) <= key(j)}
    IN IF cands = <<>> THEN None
       ELSE Some(cands[CHOOSE k \in least : \A j \in least : k <= j])

\* What a constructor returned: the device context, or an error, or a panic
DeviceOk(p, i) == [kind |-> "ok", physical_device |-> p, queue_family_index |-> i, msg |-> ""]
DeviceErr(msg) == [kind |-> "err", physical_device |-> 0, queue_family_index |-> 0, msg |-> msg]
DevicePanic(msg) == [kind |-> "panic", physical_device |-> 0, queue_family_index |-> 0, msg |-> msg]

\* Mutant of VulkanRenderer_new: a missing candidate falls back to device 0,
\* family 0
VulkanRenderer_new_fallback(devs, device_ok) ==
    LET sel == min_by_key(devs, candidates(devs))
    IN IF sel = None THEN DeviceOk(0, 0)
       ELSE IF ~device_ok THEN DeviceErr("Device::new")
       ELSE DeviceOk(sel[1].p, sel[1].i)

\* VulkanRenderer::new from the enumeration on: ok_or(..)? returns the error
\* for no candidate, Device::new(..)? the driver's error
VulkanRenderer_new(devs, device_ok) ==
    LET sel == min_by_key(devs, candidates(devs))
    IN IF sel = None THEN DeviceErr("No suitable physical device found")
       ELSE IF ~device_ok THEN DeviceErr("Device::new")
       ELSE DeviceOk(sel[1].p, sel[1].i)

\* RenderContext::new of renderer/mod.rs from the enumeration on: the first
\* device enumerated, its first family with GRAPHICS; every failure is an
\* expect that panics
RenderContext_new(devs, device_ok) ==
    IF devs = <<>> THEN DevicePanic("no devices available")
    ELSE LET i == position([k \in DOMAIN devs[1].families |->
                               graphics_only(devs[1].families[k])])
         IN IF i = None THEN DevicePanic("couldn't find a graphical queue family")
            ELSE IF ~device_ok THEN DevicePanic("failed to create device")
            ELSE DeviceOk(0, i[1])

\* The renderer is constructed: VulkanRenderer::new
renderer_new ==
    /\ device_ctx = None
    /\ \E device_ok \in BOOLEAN :
          device_ctx' = Some([by |-> "VulkanRenderer"] @@ VulkanRenderer_new(devices, device_ok))
    /\ UNCHANGED <<auxVars, window, drawFrameVars, panicked, slotVars, scenario, loadVars,
                   chainVars, devices, uniform_call>>

\* The renderer of renderer/mod.rs is constructed: RenderContext::new
render_context_new ==
    /\ device_ctx = None
    /\ \E device_ok \in BOOLEAN :
          device_ctx' = Some([by |-> "RenderContext"] @@ RenderContext_new(devices, device_ok))
    /\ UNCHANGED <<auxVars, window, drawFrameVars, panicked, slotVars, scenario, loadVars,
                   chainVars, devices, uniform_call>>

\* ------------------------------------------------------------ uniform buffers
\* What Buffer::new_sized::<UniformBufferObject> allocates
UniformBuffer == [usage |-> "UNIFORM_BUFFER"]

\* A create_uniform_buffers call that pushes `wanted` buffers one after the
\* other onto bufs: allocation number `allocs` + 1 fails and `?` returns
\* there, leaving what was pushed; allocs >= wanted means none fails
push_uniform_buffers(bufs, wanted, allocs) ==
    LET pushed == IF allocs < wanted THEN allocs ELSE wanted
    IN [uniform_buffers |-> bufs \o [k \in 1..pushed |-> UniformBuffer],
        ok |-> allocs >= wanted]

\* VulkanResources::create_uniform_buffers(count): nothing to do when the
\* Vec already has count buffers, else it is cleared and filled anew
VulkanResources_create_uniform_buffers(bufs, count, allocs) ==
    IF Len(bufs) = count
    THEN [uniform_buffers |-> bufs, ok |-> TRUE]
    ELSE push_uniform_buffers(<<>>, count, allocs)

\* VulkanResourceManager::create_uniform_buffers(): MAX_FRAMES_IN_FLIGHT
\* buffers are pushed onto the Vec as it stands
VulkanResourceManager_create_uniform_buffers(bufs, allocs) ==
    push_uniform_buffers(bufs, MAX_FRAMES_IN_FLIGHT, allocs)

\* get_uniform_buffer(index) of both registries: Vec::get(index).cloned()
get_uniform_buffer(bufs, index) ==
    IF index + 1 \in DOMAIN bufs THEN Some(bufs[index + 1]) ELSE None

\* What a create_uniform_buffers call leaves to see: the registry called, the
\* count asked for, the result, and the indices at which get_uniform_buffer
\* answers Some afterwards
UniformCall(registry, count, r) ==
    [registry |-> registry, count |-> count, ok |-> r.ok,
     defined |-> {i \in 0..(MaxUniformBuffers + 1) :
                     get_uniform_buffer(r.uniform_buffers, i) # None}]

\* A caller calls VulkanResources::create_uniform_buffers(count)
resources_create_uniform_buffers ==
    /\ \E count \in 0..MaxUniformBuffers, allocs \in 0..MaxUniformBuffers :
          LET r == VulkanResources_create_uniform_buffers(resources.uniform_buffers,
                                                          count, allocs)
          IN /\ resources' = [resources EXCEPT !.uniform_buffers = r.uniform_buffers]
             /\ uniform_call' = Some(UniformCall("VulkanResources", count, r))
    /\ UNCHANGED <<auxVars, window, drawFrameVars, panicked, slotVars, scenario, chainVars,
                   manager, load, upload, in_flight, devices, device_ctx>>

\* A caller calls VulkanResourceManager::create_uniform_buffers(), while the
\* Vec stays within MaxUniformBuffers
manager_create_uniform_buffers ==
    /\ Len(manager.uniform_buffers) + MAX_FRAMES_IN_FLIGHT <= MaxUniformBuffers
    /\ \E allocs \in 0..MAX_FRAMES_IN_FLIGHT :
          LET r == VulkanResourceManager_create_uniform_buffers(manager.uniform_buffers,
                                                                allocs)
          IN /\ manager' = [manager EXCEPT !.uniform_buffers = r.uniform_buffers]
             /\ uniform_call' = Some(UniformCall("VulkanResourceManager",
                                                 MAX_FRAMES_IN_FLIGHT, r))
    /\ UNCHANGED <<auxVars, window, drawFrameVars, panicked, slotVars, scenario, chainVars,
                   resources, load, upload, in_flight, devices, device_ctx>>

\* ------------------------------------------- render_targets.rs: RenderTargets
\* Render passes are keyed 0..MaxPasses - 1.
MaxPasses == 2

PassKeys == 0..(MaxPasses - 1)
RenderPasses == 0..(MaxPasses - 1)

\* Arc<Image>: image number index of the swapchain with the given handle
Image(handle, index) == [handle |-> handle, index |-> index]

\* The images a swapchain hands out, in order
swapchain_images(handle, n) == [i \in 1..n |-> Image(handle, i - 1)]

ImageLists ==
    {swapchain_images(h, n) : h \in 0..(NumHandles - 1), n \in ImageCounts}

\* Framebuffer::new(render_pass, FramebufferCreateInfo { attachments:
\* vec![view], .. }) with view = ImageView::new_default(img)
Framebuffer(render_pass, img) ==
    [render_pass |-> render_pass, attachments |-> <<[image |-> img]>>]

\* RenderTargets::new
RenderTargets_new(images) ==
    [images |-> images, framebuffers |-> <<>>]

\* HashMap::insert
insert(map, key, value) ==
    [k \in DOMAIN map \cup {key} |-> IF k = key THEN value ELSE map[k]]

\* rebuild_for_pass, the framebuffers collected from the first n images
collect(images, n, render_pass) ==
    [i \in 1..n |-> Framebuffer(render_pass, images[i])]

\* Mutant of rebuild_for_pass: the framebuffers built before the failure
\* are stored
rebuild_for_pass_stores_partial(rt, pass_key, render_pass, fail_at) ==
    IF fail_at # 0
    THEN [rt EXCEPT !.framebuffers =
             insert(@, pass_key, collect(rt.images, fail_at - 1, render_pass))]
    ELSE [rt EXCEPT !.framebuffers =
             insert(@, pass_key, collect(rt.images, Len(rt.images), render_pass))]

\* RenderTargets::rebuild_for_pass; fail_at is the image whose view or
\* framebuffer cannot be created (0: none), at which collect returns the
\* error and `?` leaves the function
rebuild_for_pass(rt, pass_key, render_pass, fail_at) ==
    IF fail_at # 0
    THEN rt
    ELSE [rt EXCEPT !.framebuffers =
             insert(@, pass_key, collect(rt.images, Len(rt.images), render_pass))]

\* RenderTargets::framebuffers
framebuffers(rt, pass_key) ==
    IF pass_key \in DOMAIN rt.framebuffers
    THEN Some(rt.framebuffers[pass_key])
    ELSE None

\* Mutant of replace_images: the cache is kept
replace_images_keeps_cache(rt, images) ==
    [rt EXCEPT !.images = images]

\* RenderTargets::replace_images
replace_images(rt, images) ==
    [rt EXCEPT !.images = images, !.framebuffers = <<>>]

\* What a RenderTargets call leaves to see: its name, its pass key and its
\* result
TargetsCall(op, pass_key, ok) == [op |-> op, pass_key |-> pass_key, ok |-> ok]

\* A caller builds the RenderTargets of a swapchain's images
targets_new ==
    /\ render_targets = None
    /\ \E images \in ImageLists :
          render_targets' = Some(RenderTargets_new(images))
    /\ targets_call' = Some(TargetsCall("new", -1, TRUE))
    /\ UNCHANGED <<window, drawFrameVars, panicked, slotVars, scenario, loadVars,
                   chainVars, startVars, input, last_key_event>>

\* A caller calls rebuild_for_pass(pass_key, render_pass)
targets_rebuild_for_pass ==
    /\ render_targets # None
    /\ \E pass_key \in PassKeys, render_pass \in RenderPasses,
          fail_at \in 0..Len(render_targets[1].images) :
          /\ render_targets' = Some(rebuild_for_pass(render_targets[1], pass_key,
                                                     render_pass, fail_at))
          /\ targets_call' = Some(TargetsCall("rebuild_for_pass", pass_key, fail_at = 0))
    /\ UNCHANGED <<window, drawFrameVars, panicked, slotVars, scenario, loadVars,
                   chainVars, startVars, input, last_key_event>>

\* A caller calls replace_images with the images of a swapchain
targets_replace_images ==
    /\ render_targets # None
    /\ \E images \in ImageLists :
          render_targets' = Some(replace_images(render_targets[1], images))
    /\ targets_call' = Some(TargetsCall("replace_images", -1, TRUE))
    /\ UNCHANGED <<window, drawFrameVars, panicked, slotVars, scenario, loadVars,
                   chainVars, startVars, input, last_key_event>>

\* ------------------------------------------------------------ specification
InitWindow ==
    window \in [is_minimized : BOOLEAN, width : 1..MaxWidth, height : {1}]

\* VulkanRenderer::new leaves render_context: None
InitDrawFrame ==
    /\ render_context = None
    /\ frame_log = <<>>
    /\ ret = Ret("none", "")
    /\ ticks = 0

\* The RenderContext as built at start-up: a chain of n images at the window
\* size, MAX_FRAMES_IN_FLIGHT empty frame slots, frame index 0
InitRenderContext(n) ==
    /\ rcx = [swapchain |-> Chain(0, inner_size, n),
              viewport |-> inner_size,
              recreate_swapchain |-> FALSE,
              frames |-> [s \in Slots |-> [in_flight_future |-> None]],
              current_frame |-> 0]
    /\ pc = "idle"
    /\ frame = NoFrame
    /\ gpu = [f \in FenceIds |-> [state |-> "unused", slot |-> 0]]
    /\ last_frame = None
    /\ result = Ret("none", "")

\* VulkanResources::new and VulkanResourceManager::new: nothing uploaded
NoResources == [meshes |-> <<>>, textures |-> <<>>, uniform_buffers |-> <<>>]

\* VulkanResourceManager::new: nothing created
NoManager == [meshes |-> <<>>, uniform_buffers |-> <<>>]

\* Application::run has not been called and no upload is in progress
InitLoad ==
    /\ manager = NoManager
    /\ load = LoadState("init", 0, 0)
    /\ upload = None
    /\ in_flight = {}

\* No VulkanSwapchain of its own is under test
InitNoChain ==
    /\ surface = None
    /\ vsc = None
    /\ calls = <<>>

\* No RenderTargets is under test
InitNoTargets ==
    /\ render_targets = None
    /\ targets_call = None

\* Input::new in Application::new; no key event has been handled
InitInput ==
    /\ input = Input_new
    /\ last_key_event = [k \in Keys |-> None]

InitNoAux ==
    /\ InitNoTargets
    /\ InitInput

\* No renderer construction is under test
InitNoStart ==
    /\ devices = <<>>
    /\ device_ctx = None
    /\ uniform_call = None

\* The frame loop starts after the load loop: no mesh, the one triangle, or a
\* quad uploaded before a triangle
Init ==
    /\ InitWindow
    /\ InitDrawFrame
    /\ \E n \in ImageCounts : InitRenderContext(n)
    /\ panicked = FALSE
    /\ resources \in {NoResources, [NoResources EXCEPT !.meshes = <<Triangle>>],
                      [NoResources EXCEPT !.meshes = <<Quad, Triangle>>]}
    /\ scenario = IF ~window.is_minimized /\ resources.meshes = <<Triangle>>
                  THEN Some([updates |-> 0, submitted |-> <<>>])
                  ELSE None
    /\ InitLoad
    /\ InitNoChain
    /\ InitNoStart
    /\ InitNoAux

InitLegacy ==
    /\ InitWindow
    /\ InitDrawFrame
    /\ InitRenderContext(MAX_FRAMES_IN_FLIGHT)
    /\ panicked = FALSE
    /\ resources = NoResources
    /\ scenario = None
    /\ InitLoad
    /\ InitNoChain
    /\ InitNoStart
    /\ InitNoAux

Next ==
    \/ handle_window_event
    \/ begin_frame
    \/ wait_for_slot
    \/ record_frame
    \/ execute_command_buffer
    \/ drop_active_frame
    \/ gpu_complete

Spec == Init /\ [][Next]_vars

\* The frame loop with the one triangle uploaded, on any window
InitFair ==
    /\ InitWindow
    /\ InitDrawFrame
    /\ \E n \in ImageCounts : InitRenderContext(n)
    /\ panicked = FALSE
    /\ resources = [NoResources EXCEPT !.meshes = <<Triangle>>]
    /\ scenario = None
    /\ InitLoad
    /\ InitNoChain
    /\ InitNoStart
    /\ InitNoAux

\* The driver makes an image available: an update gets past acquisition
image_available == begin_frame /\ pc' = "wait_slot"

\* The queue accepts a submission
submission_flushed == execute_command_buffer /\ frame'.sub = "Ok"

\* The frame loop under fairness: an update in progress keeps running, the
\* GPU eventually finishes what was submitted to it, and a driver asked again
\* and again eventually makes an image available and accepts a submission
SpecFair ==
    /\ InitFair
    /\ [][Next]_vars
    /\ WF_vars(wait_for_slot)
    /\ WF_vars(record_frame)
    /\ WF_vars(execute_command_buffer)
    /\ WF_vars(drop_active_frame)
    /\ WF_vars(gpu_complete)
    /\ SF_vars(image_available)
    /\ SF_vars(submission_flushed)

NextDrawFrame ==
    \/ handle_window_event
    \/ initialize_render_context
    \/ on_update

SpecDrawFrame == InitLegacy /\ [][NextDrawFrame]_vars

\* The load of a build on VulkanResources (Application::run) or the uploads
\* of a build on VulkanResourceManager, in a window that is not resized
InitUpload ==
    /\ window = [is_minimized |-> FALSE, width |-> 1, height |-> 1]
    /\ InitDrawFrame
    /\ InitRenderContext(MAX_FRAMES_IN_FLIGHT)
    /\ panicked = FALSE
    /\ resources = NoResources
    /\ scenario = None
    /\ manager = NoManager
    /\ load \in {LoadState("init", 0, 0), LoadState("manager", 0, 0)}
    /\ upload = None
    /\ in_flight = {}
    /\ InitNoChain
    /\ InitNoStart
    /\ InitNoAux

NextUpload ==
    \/ run_load
    \/ run_upload_mesh
    \/ run_upload_texture
    \/ call_create_mesh
    \/ upload_submit
    \/ gpu_copy_complete
    \/ upload_wait
    \/ upload_return
    \/ run_renderer

SpecUpload == InitUpload /\ [][NextUpload]_vars

\* A VulkanSwapchain on its own: built once for a surface, then recreated
InitSwapchain ==
    /\ window = [is_minimized |-> FALSE, width |-> 1, height |-> 1]
    /\ InitDrawFrame
    /\ InitRenderContext(MAX_FRAMES_IN_FLIGHT)
    /\ panicked = FALSE
    /\ resources = NoResources
    /\ scenario = None
    /\ InitLoad
    /\ surface \in {Some(s) : s \in Surfaces}
    /\ vsc = None
    /\ calls = <<>>
    /\ InitNoStart
    /\ InitNoAux

NextSwapchain ==
    \/ swapchain_new
    \/ swapchain_recreate

SpecSwapchain == InitSwapchain /\ [][NextSwapchain]_vars

\* A renderer is constructed on a machine with up to MaxDevices devices
InitDevice ==
    /\ window = [is_minimized |-> FALSE, width |-> 1, height |-> 1]
    /\ InitDrawFrame
    /\ InitRenderContext(MAX_FRAMES_IN_FLIGHT)
    /\ panicked = FALSE
    /\ resources = NoResources
    /\ scenario = None
    /\ InitLoad
    /\ InitNoChain
    /\ InitNoAux
    /\ devices \in UNION {[1..n -> PhysicalDevices] : n \in 0..MaxDevices}
    /\ device_ctx = None
    /\ uniform_call = None

NextDevice ==
    \/ renderer_new
    \/ render_context_new

SpecDevice == InitDevice /\ [][NextDevice]_vars

\* The uniform buffers of both registries, created any number of times
InitUniform ==
    /\ window = [is_minimized |-> FALSE, width |-> 1, height |-> 1]
    /\ InitDrawFrame
    /\ InitRenderContext(MAX_FRAMES_IN_FLIGHT)
    /\ panicked = FALSE
    /\ resources = NoResources
    /\ scenario = None
    /\ InitLoad
    /\ InitNoChain
    /\ InitNoStart
    /\ InitNoAux

NextUniform ==
    \/ resources_create_uniform_buffers
    \/ manager_create_uniform_buffers

SpecUniform == InitUniform /\ [][NextUniform]_vars

\* A RenderTargets built once and then rebuilt per pass and given new
\* images any number of times
InitTargets ==
    /\ window = [is_minimized |-> FALSE, width |-> 1, height |-> 1]
    /\ InitDrawFrame
    /\ InitRenderContext(MAX_FRAMES_IN_FLIGHT)
    /\ panicked = FALSE
    /\ resources = NoResources
    /\ scenario = None
    /\ InitLoad
    /\ InitNoChain
    /\ InitNoStart
    /\ InitNoTargets
    /\ InitInput

NextTargets ==
    \/ targets_new
    \/ targets_rebuild_for_pass
    \/ targets_replace_images

SpecTargets == InitTargets /\ [][NextTargets]_vars

\* The application's event loop as the Input sees it: key, button and cursor
\* events between updates, in a window that is not resized and with no
\* render context built
InitInputLoop ==
    /\ window \in [is_minimized : BOOLEAN, width : {1}, height : {1}]
    /\ InitDrawFrame
    /\ InitRenderContext(MAX_FRAMES_IN_FLIGHT)
    /\ panicked = FALSE
    /\ resources = NoResources
    /\ scenario = None
    /\ InitLoad
    /\ InitNoChain
    /\ InitNoStart
    /\ InitNoTargets
    /\ InitInput

NextInput ==
    \/ keyboard_input
    \/ mouse_input
    \/ cursor_moved
    \/ on_update

SpecInput == InitInputLoop /\ [][NextInput]_vars

\* ------------------------------------------------------------------ claims
HasOp(log, op) == \E i \in DOMAIN log : log[i].op = op
HasEv(log, op, res) == \E i \in DOMAIN log : log[i].op = op /\ log[i].res = res

\* C1 (as written): every recorded frame uses the slot after the one the
\* previous recorded frame used, so no slot value is ever repeated
C1_NoRepeatedIndex ==
    (pc = "record" /\ last_frame # None)
        => rcx.current_frame = (last_frame[1].slot + 1) % MAX_FRAMES_IN_FLIGHT

\* C1 (amended): the frame index is always in 0..N-1, and a recorded frame
\* uses the slot after the previous recorded frame's when that frame was
\* submitted and its fence wait succeeded, and the same slot otherwise,
\* whatever number of skipped updates lies between the two.
C1_FrameIndexCycles ==
    /\ rcx.current_frame \in 0..(MAX_FRAMES_IN_FLIGHT - 1)
    /\ last_frame = None => rcx.current_frame = 0
    /\ (pc \in {"idle", "wait_slot", "record"} /\ last_frame # None)
          => rcx.current_frame =
               IF last_frame[1].sub = "Ok" /\ last_frame[1].waited
               THEN (last_frame[1].slot + 1) % MAX_FRAMES_IN_FLIGHT
               ELSE last_frame[1].slot

\* C1 witness: a frame is being recorded in slot 0 after the index wrapped
\* round from slot N-1, with a skipped update in between
C1_Witness ==
    /\ pc = "record"
    /\ last_frame # None
    /\ last_frame[1].slot = MAX_FRAMES_IN_FLIGHT - 1
    /\ last_frame[1].sub = "Ok"
    /\ rcx.current_frame = 0
    /\ result.logged = "skipping draw frame"

\* C2: while the CPU rewrites the current slot's uniform buffer and records
\* commands binding its descriptor set, the slot's pending signal has been
\* waited on and cleared and no submitted frame using the slot is executing
C2_SlotIdleWhenRewritten ==
    pc \in {"record", "submit"} =>
        /\ rcx.frames[rcx.current_frame].in_flight_future = None
        /\ \A f \in FenceIds :
              ~(gpu[f].state = "executing" /\ gpu[f].slot = rcx.current_frame)

\* C2 witness: slot 0 is rewritten a second time, after its previous fence
\* was waited on, while the fence of the other frame is still stored
C2_Witness ==
    /\ pc = "record"
    /\ last_frame # None
    /\ last_frame[1].sub = "Ok"
    /\ last_frame[1].waited
    /\ last_frame[1].slot = MAX_FRAMES_IN_FLIGHT - 1
    /\ rcx.current_frame = 0
    /\ \E f \in FenceIds : gpu[f].state = "signaled"

\* C3: a draw_frame call on a minimized or zero-width or zero-height window
\* changes nothing of the renderer, asks the driver for nothing and returns Ok
C3_SkippedFrameChangesNothing ==
    [][(ticks' # ticks /\ (window.is_minimized \/ window.width = 0 \/ window.height = 0))
          => /\ render_context' = render_context
             /\ frame_log' = <<>>
             /\ ret'.val = "Ok"
             /\ ~panicked']_vars

\* C3 witness: a frame was submitted, then the window got zero height and
\* the next draw_frame was skipped
C3_Witness ==
    /\ ret.logged = "skipping draw frame"
    /\ ~window.is_minimized
    /\ window.width > 0 /\ window.height = 0
    /\ render_context # None
    /\ render_context[1].previous_frame_end = Some("fence")
    /\ render_context[1].recreate_swapchain

\* C4: when recreate_swapchain is set at the start of a draw_frame that goes
\* on to acquire an image, the first driver call is the recreate at the
\* window size, the image is acquired from the new chain, the framebuffers
\* are those of the new chain's images, the viewport extent is the window
\* size, and the flag was cleared (it is set again only by this frame's own
\* OutOfDate or suboptimal result)
C4_RecreateBeforeAcquire ==
    [][(/\ ticks' # ticks
        /\ render_context # None
        /\ render_context[1].recreate_swapchain
        /\ HasOp(frame_log', "acquire"))
          => LET size == <<window.width, window.height>>
                 new == render_context'[1]
             IN /\ frame_log'[1].op = "recreate"
                /\ frame_log'[1].res = "Ok"
                /\ frame_log'[1].extent = size
                /\ frame_log'[2].op = "acquire"
                /\ frame_log'[2].handle = frame_log'[1].handle
                /\ new.swapchain.handle = frame_log'[1].handle
                /\ new.swapchain.handle # render_context[1].swapchain.handle
                /\ new.swapchain.extent = size
                /\ new.framebuffers.handle = new.swapchain.handle
                /\ new.framebuffers.count = new.swapchain.image_count
                /\ new.viewport = size
                /\ new.recreate_swapchain =
                      (\/ frame_log'[2].res \in {"OutOfDate", "Suboptimal"}
                       \/ HasEv(frame_log', "submit", "OutOfDate"))]_vars

\* C4 witness: a frame that began with the recreate, at a size other than
\* the initial one, went on to be presented
C4_Witness ==
    /\ frame_log # <<>>
    /\ frame_log[1].op = "recreate"
    /\ frame_log[1].res = "Ok"
    /\ HasOp(frame_log, "present")
    /\ render_context[1].viewport = <<MaxWidth, 1>>
    /\ ~render_context[1].recreate_swapchain

\* C5: a draw_frame whose acquire answers OutOfDate sets recreate_swapchain,
\* returns Ok, records, submits and presents nothing, and acquires only once
C5_AcquireOutOfDate ==
    [][(ticks' # ticks /\ HasEv(frame_log', "acquire", "OutOfDate"))
          => /\ render_context'[1].recreate_swapchain
             /\ ret'.val = "Ok"
             /\ ~panicked'
             /\ ~HasOp(frame_log', "record")
             /\ ~HasOp(frame_log', "submit")
             /\ ~HasOp(frame_log', "present")
             /\ Cardinality({i \in DOMAIN frame_log' : frame_log'[i].op = "acquire"}) = 1
             /\ render_context'[1].previous_frame_end = render_context[1].previous_frame_end
      ]_vars

\* C5 witness: the last draw_frame ended at an OutOfDate acquire
C5_Witness ==
    /\ frame_log # <<>>
    /\ frame_log[Len(frame_log)].op = "acquire"
    /\ frame_log[Len(frame_log)].res = "OutOfDate"
    /\ ret.val = "Ok"
    /\ render_context[1].recreate_swapchain

\* C6: a draw_frame whose acquire succeeds as suboptimal still records and
\* submits with the chain it acquired from, does not rebuild the chain after
\* the acquire, and leaves recreate_swapchain set; and a draw_frame that is
\* not skipped and finds the flag set begins with the recreate
C6_SuboptimalStillDraws ==
    [][/\ (/\ ticks' # ticks
           /\ ~(window.is_minimized \/ window.width = 0 \/ window.height = 0)
           /\ render_context # None
           /\ render_context[1].recreate_swapchain
           /\ render_context[1].previous_frame_end # None)
          => (frame_log' # <<>> /\ frame_log'[1].op = "recreate")
       /\ (ticks' # ticks /\ HasEv(frame_log', "acquire", "Suboptimal"))
          => LET a == CHOOSE i \in DOMAIN frame_log' : frame_log'[i].op = "acquire"
             IN /\ Len(frame_log') >= a + 2
                /\ frame_log'[a + 1].op = "record"
                /\ frame_log'[a + 1].handle = frame_log'[a].handle
                /\ frame_log'[a + 1].index = frame_log'[a].index
                /\ frame_log'[a + 2].op = "submit"
                /\ frame_log'[a + 2].handle = frame_log'[a].handle
                /\ \A i \in DOMAIN frame_log' :
                      i > a => frame_log'[i].op # "recreate"
                /\ render_context'[1].swapchain.handle = frame_log'[a].handle
                /\ render_context'[1].recreate_swapchain]_vars

\* C6 witness: a suboptimal acquire on a chain that was not rebuilt in this
\* frame, followed by the present of the frame
C6_Witness ==
    /\ Len(frame_log) = 4
    /\ frame_log[1].op = "acquire"
    /\ frame_log[1].res = "Suboptimal"
    /\ frame_log[4].op = "present"
    /\ render_context[1].recreate_swapchain
\* C7: a submission that answers OutOfDate sets recreate_swapchain and
\* leaves the current slot without a pending signal, and the update then
\* returns Ok with the slot still empty and the application running
C7_SubmitOutOfDate ==
    [][/\ (pc = "submit" /\ pc' = "drop" /\ frame'.sub = "OutOfDate")
            => /\ rcx'.recreate_swapchain
               /\ rcx'.frames[rcx.current_frame].in_flight_future = None
               /\ gpu' = gpu
       /\ (pc = "drop" /\ pc' = "idle" /\ frame.sub = "OutOfDate")
            => /\ result'.val = "Ok"
               /\ ~panicked'
               /\ rcx'.recreate_swapchain
               /\ rcx'.frames[rcx'.current_frame].in_flight_future = None]_vars

\* C7 witness: an update whose submission answered OutOfDate has returned
C7_Witness ==
    /\ pc = "idle"
    /\ last_frame # None
    /\ last_frame[1].sub = "OutOfDate"
    /\ result.val = "Ok"
    /\ rcx.recreate_swapchain
    /\ rcx.frames[rcx.current_frame].in_flight_future = None

\* C8: a submission that fails with another error changes neither
\* recreate_swapchain nor any slot's pending signal, starts no GPU work, and
\* the update returns that error
C8_SubmitErrorPropagates ==
    [][/\ (pc = "submit" /\ pc' = "drop" /\ frame'.sub = "Err")
            => /\ rcx'.recreate_swapchain = rcx.recreate_swapchain
               /\ rcx'.frames = rcx.frames
               /\ gpu' = gpu
       /\ (pc = "drop" /\ pc' = "idle" /\ frame.sub = "Err")
            => /\ result'.val = "Err"
               /\ rcx' = rcx]_vars

\* C8 witness: an update whose submission failed has returned Err while
\* recreate_swapchain was not set
C8_Witness ==
    /\ pc = "idle"
    /\ last_frame # None
    /\ last_frame[1].sub = "Err"
    /\ result.val = "Err"
    /\ ~rcx.recreate_swapchain

\* C9: after a draw_frame that failed at acquisition or at submission with
\* an error other than staleness, the application is still running and the
\* renderer still holds what the next draw_frame needs to submit a frame
C9_LoopContinuesAfterError ==
    (/\ ret.val = "Err"
     /\ (HasEv(frame_log, "acquire", "Err") \/ HasEv(frame_log, "submit", "Err")))
        => /\ ~panicked
           /\ render_context[1].previous_frame_end # None

\* C10: the chain is rebuilt only as the first driver call of a frame, and
\* the image a frame presents is the image it acquired, from the chain it
\* acquired from, which is still the renderer's chain after the frame
C10_NoMidFrameRecreate ==
    /\ \A i \in DOMAIN frame_log : frame_log[i].op = "recreate" => i = 1
    /\ \A j \in DOMAIN frame_log :
          frame_log[j].op \in {"record", "submit", "present"}
            => \E i \in 1..(j - 1) :
                  /\ frame_log[i].op = "acquire"
                  /\ frame_log[i].res \in {"Ok", "Suboptimal"}
                  /\ frame_log[i].index = frame_log[j].index
                  /\ frame_log[i].handle = frame_log[j].handle
                  /\ render_context[1].swapchain.handle = frame_log[j].handle

\* C10 witness: a frame that began with a recreate acquired a suboptimal
\* image and presented it, leaving the flag set for the next frame
C10_Witness ==
    /\ Len(frame_log) = 5
    /\ frame_log[1].op = "recreate"
    /\ frame_log[2].res = "Suboptimal"
    /\ frame_log[5].op = "present"
    /\ frame_log[5].index = MaxImages - 1
    /\ render_context[1].recreate_swapchain

\* C11: when the window size differs from the extent the chain was built
\* with (the window has been resized since), the next draw_frame that is not
\* skipped begins by rebuilding the chain at the window's size
C11_ResizeForcesRecreate ==
    [][(/\ ticks' # ticks
        /\ ~(window.is_minimized \/ window.width = 0 \/ window.height = 0)
        /\ render_context # None
        /\ render_context[1].previous_frame_end # None
        /\ render_context[1].swapchain.extent # <<window.width, window.height>>)
          => /\ Len(frame_log') >= 1
             /\ frame_log'[1].op = "recreate"
             /\ frame_log'[1].extent = <<window.width, window.height>>]_vars

\* C12: while a run from start-up makes its (at most five) updates with no
\* resize and only Ok driver answers, every update submits once, the slots
\* submitted are 0,1,0,1,0 in that order, and the chain is never flagged for
\* a rebuild nor rebuilt
C12_FiveUpdates ==
    scenario # None =>
        /\ scenario[1].updates <= Len(ScenarioSlots)
        /\ scenario[1].submitted =
              SubSeq(ScenarioSlots, 1, Len(scenario[1].submitted))
        /\ Len(scenario[1].submitted) =
              scenario[1].updates + (IF pc = "drop" THEN 1 ELSE 0)
        /\ ~rcx.recreate_swapchain
        /\ rcx.swapchain.handle = 0
        /\ result.val # "Err"

\* C12 witness: the fifth update of such a run has returned, after five
\* submissions that each drew the triangle's three indices
C12_Witness ==
    /\ scenario # None
    /\ scenario[1].updates = 5
    /\ scenario[1].submitted = <<0, 1, 0, 1, 0>>
    /\ pc = "idle"
    /\ resources.meshes = <<Triangle>>
    /\ rcx.current_frame = 1

C14_MeshRoundTrip ==
    (upload # None /\ upload[1].ret # None /\ upload[1].ret[1].val = "Ok"
       /\ upload[1].op \in {"upload_mesh", "create_mesh"})
      => LET store == IF upload[1].op = "upload_mesh" THEN resources ELSE manager
             queried == get_mesh(store, Len(store.meshes) - 1)
         IN /\ queried # None
            /\ queried[1].vertex_count = upload[1].args[1]
            /\ queried[1].index_count = upload[1].args[2]

\* C14 witness: a mesh of 4 vertices and 6 indices was uploaded after
\* another one and is queried back
C14_Witness ==
    /\ upload # None
    /\ upload[1].op = "upload_mesh"
    /\ upload[1].args = <<4, 6>>
    /\ upload[1].ret = Some(Returned("Ok", None))
    /\ Len(resources.meshes) = 2
    /\ get_mesh(resources, 1) = Some(GPUMesh(4, 6, 4, 6))
    /\ get_mesh(resources, 2) = None

\* C15 (as written): an upload of a mesh that returned Ok returned the
\* identifier of the mesh it stored, which is the mesh's position
C15_UploadReturnsId ==
    (upload # None /\ upload[1].ret # None /\ upload[1].ret[1].val = "Ok"
       /\ upload[1].op \in {"upload_mesh", "create_mesh"})
      => LET store == IF upload[1].op = "upload_mesh" THEN resources ELSE manager
             id == upload[1].ret[1].id
         IN /\ id # None
            /\ id[1] = Len(store.meshes) - 1
            /\ get_mesh(store, id[1]) # None

\* C15 (amended): a mesh upload that succeeds stores its mesh at the next
\* position (the number of meshes stored before it); create_mesh returns
\* that position, upload_mesh returns no identifier; and no step changes or
\* removes a mesh already stored, so a position keeps naming the same mesh
C15_MeshIdsStable ==
    [][/\ \A k \in 1..Len(resources.meshes) :
             /\ Len(resources.meshes') >= k
             /\ resources.meshes'[k] = resources.meshes[k]
       /\ \A k \in 1..Len(manager.meshes) :
             /\ Len(manager.meshes') >= k
             /\ manager.meshes'[k] = manager.meshes[k]
       /\ (/\ upload # None /\ upload[1].ret = None
           /\ upload' # None /\ upload'[1].ret # None
           /\ upload'[1].ret[1].val = "Ok"
           /\ upload[1].op = "create_mesh")
            => /\ upload'[1].ret[1].id = Some(Len(manager.meshes))
               /\ Len(manager.meshes') = Len(manager.meshes) + 1
               /\ manager.meshes'[Len(manager.meshes) + 1].vertex_count
                     = upload[1].args[1]
               /\ manager.meshes'[Len(manager.meshes) + 1].index_count
                     = upload[1].args[2]
       /\ (/\ upload # None /\ upload[1].ret = None
           /\ upload' # None /\ upload'[1].ret # None
           /\ upload'[1].ret[1].val = "Ok"
           /\ upload[1].op = "upload_mesh")
            => /\ upload'[1].ret[1].id = None
               /\ Len(resources.meshes') = Len(resources.meshes) + 1
               /\ resources.meshes'[Len(resources.meshes) + 1].vertex_count
                     = upload[1].args[1]
               /\ resources.meshes'[Len(resources.meshes) + 1].index_count
                     = upload[1].args[2]]_vars

\* C15 witness: the second create_mesh has returned identifier 1, and
\* identifier 0 still names the first mesh, which differs from the second
C15_Witness ==
    /\ upload # None
    /\ upload[1].op = "create_mesh"
    /\ upload[1].ret = Some(Returned("Ok", Some(1)))
    /\ get_mesh(manager, 0) = Some(GPUMesh(3, 3, 3, 3))
    /\ get_mesh(manager, 1) = Some(GPUMesh(4, 6, 4, 6))

\* C16: every primitive and every texture of the loaded model gets its
\* upload call whatever the earlier calls returned: the calls made, the call
\* in progress and the assets still to come add up to the model's assets;
\* the renderer is started only after all of them; each call's result has
\* reached the caller, and exactly the uploads that returned Ok are stored
C16_FailedUploadSkipped ==
    load.phase \in {"loading", "running"} =>
        /\ Len(load.results) + (IF upload # None THEN 1 ELSE 0)
             + load.left.primitives + load.left.textures
             = load.scene.primitives + load.scene.textures
        /\ load.phase = "running" =>
             Len(load.results) = load.scene.primitives + load.scene.textures
        /\ Len(resources.meshes) + Len(resources.textures)
             = Cardinality({i \in DOMAIN load.results : load.results[i] = "Ok"})
               + (IF upload # None /\ upload[1].ret = Some(Returned("Ok", None))
                  THEN 1 ELSE 0)

\* C16 witness: the first primitive and the first texture failed to upload,
\* the second primitive and the second texture were uploaded all the same,
\* and the renderer was started
C16_Witness ==
    /\ load.phase = "running"
    /\ load.results = <<"Err", "Ok", "Err", "Ok">>
    /\ Len(resources.meshes) = 1
    /\ Len(resources.textures) = 1

\* C17: the mip level count L that upload_texture computes for a W x H
\* texture is floor(log2(max(W,H))) + 1, that is, 2^(L-1) <= max(W,H) < 2^L;
\* 512x256 gives 10 and 1x1 gives 1
C17_MipLevelCount ==
    (upload # None /\ upload[1].op = "upload_texture")
      => LET W == upload[1].args[1]
             H == upload[1].args[2]
             L == upload[1].mip_levels
         IN /\ L >= 1
            /\ \E m \in {W, H} :
                  /\ m >= W /\ m >= H
                  /\ 2^(L - 1) <= m
                  /\ m < 2^L
            /\ (W = 512 /\ H = 256) => L = 10
            /\ (W = 1 /\ H = 1) => L = 1

\* C17 witness: a 512x256 texture was uploaded with 10 mip levels, and is
\* stored as the second texture after one of a single level
C17_Witness ==
    /\ upload # None
    /\ upload[1].op = "upload_texture"
    /\ upload[1].args = <<512, 256>>
    /\ upload[1].mip_levels = 10
    /\ upload[1].ret = Some(Returned("Ok", None))
    /\ resources.textures = <<GPUTexture(1), GPUTexture(10)>>

\* C18: the blits generate_mipmaps records are one per level i > 0, in
\* order; blit i reads level i-1 over exactly the dimensions of level i-1
\* (the image's extent for i = 1, the destination of blit i-1 otherwise) and
\* writes level i over max(1, floor(d/2)) of each of these dimensions d; a
\* 3x3 image gets level-1 dimensions (1,1)
C18_MipDimensions ==
    (upload # None /\ upload[1].op = "upload_texture")
      => LET b == upload[1].blits
         IN /\ \A i \in DOMAIN b :
                  /\ b[i].dst_level = i
                  /\ b[i].src_level = i - 1
                  /\ b[i].src = IF i = 1 THEN upload[1].args ELSE b[i - 1].dst
                  /\ \A axis \in 1..2 :
                        b[i].dst[axis] =
                           IF b[i].src[axis] \div 2 >= 1
                           THEN b[i].src[axis] \div 2
                           ELSE 1
            /\ (upload[1].linear = Some(TRUE)) => Len(b) = upload[1].mip_levels - 1
            /\ (upload[1].args = <<3, 3>> /\ b # <<>>) => b[1].dst = <<1, 1>>

\* C18 witness: the nine blits of a 512x256 image; the last ones keep the
\* height at 1 while the width still halves
C18_Witness ==
    /\ upload # None
    /\ upload[1].args = <<512, 256>>
    /\ Len(upload[1].blits) = 9
    /\ upload[1].blits[8].dst = <<2, 1>>
    /\ upload[1].blits[9].src = <<2, 1>>
    /\ upload[1].blits[9].dst = <<1, 1>>

\* C19: when the device does not advertise linear filtering for the image
\* format, upload_texture returns an error, no blit has been recorded, no
\* mipmap command buffer has been submitted, and no texture is stored
C19_NoLinearBlit ==
    (upload # None /\ upload[1].linear = Some(FALSE))
      => /\ upload[1].ret = Some(Returned("Err", None))
         /\ upload[1].blits = <<>>
         /\ ~upload[1].waiting
         /\ "mipmaps" \notin in_flight
         /\ Len(resources.textures)
              = Cardinality({i \in DOMAIN load.results :
                               i > load.scene.primitives /\ load.results[i] = "Ok"})

\* C19 witness: the upload of a 3x3 texture failed at the format check,
\* after its image copy had been submitted and waited for
C19_Witness ==
    /\ upload # None
    /\ upload[1].op = "upload_texture"
    /\ upload[1].args = <<3, 3>>
    /\ upload[1].stage = 2
    /\ upload[1].linear = Some(FALSE)
    /\ upload[1].ret = Some(Returned("Err", None))

C21_BestDeviceSelected ==
    (device_ctx # None /\ device_ctx[1].by = "VulkanRenderer" /\ device_ctx[1].kind = "ok") =>
        LET rank == [t \in DeviceTypes |->
                        IF t = "DiscreteGpu" THEN 1
                        ELSE IF t = "IntegratedGpu" THEN 2
                        ELSE IF t = "VirtualGpu" THEN 3
                        ELSE IF t = "Cpu" THEN 4 ELSE 5]
            eligible(d) == /\ d.extensions
                           /\ \E i \in DOMAIN d.families :
                                 d.families[i].graphics /\ d.families[i].present
            chosen == device_ctx[1].physical_device + 1
        IN /\ chosen \in DOMAIN devices
           /\ eligible(devices[chosen])
           /\ \A p \in DOMAIN devices :
                 eligible(devices[p]) =>
                    rank[devices[chosen].device_type] <= rank[devices[p].device_type]

\* An integrated GPU is enumerated before a discrete one, both eligible, and
\* the discrete one (the second device) was selected
C21_Witness ==
    /\ device_ctx # None
    /\ device_ctx[1].by = "VulkanRenderer"
    /\ device_ctx[1].kind = "ok"
    /\ Len(devices) = 2
    /\ devices[1].device_type = "IntegratedGpu"
    /\ devices[1].extensions
    /\ devices[1].families = <<QueueFamily(TRUE, TRUE)>>
    /\ devices[2].device_type = "DiscreteGpu"
    /\ devices[2].extensions
    /\ devices[2].families = <<QueueFamily(TRUE, TRUE)>>
    /\ device_ctx[1].physical_device = 1

\* C22: whichever constructor built the device context, the queue family it
\* selected on the chosen device has GRAPHICS and can present to the surface,
\* and when no enumerated device has such a family the constructor fails and
\* produces no device context.
C22_GraphicsAndPresentFamily ==
    device_ctx # None =>
        LET both(q) == q.graphics /\ q.present
            d == devices[device_ctx[1].physical_device + 1]
            i == device_ctx[1].queue_family_index + 1
        IN /\ device_ctx[1].kind = "ok" =>
                 /\ device_ctx[1].physical_device + 1 \in DOMAIN devices
                 /\ i \in DOMAIN d.families
                 /\ both(d.families[i])
           /\ (\A p \in DOMAIN devices : \A k \in DOMAIN devices[p].families :
                  ~both(devices[p].families[k]))
                 => device_ctx[1].kind # "ok"

\* C23: a chain built by VulkanSwapchain::new has image format R8G8B8A8_SRGB
\* whenever the surface reports (R8G8B8A8_SRGB, SrgbNonLinear) at any
\* position of its format list, and otherwise the format of the first
\* reported pair; recreating the chain keeps the format.
C23_PreferredFormat ==
    (surface # None /\ vsc # None) =>
        LET formats == surface[1].formats
            reported == \E i \in DOMAIN formats :
                           formats[i] = <<"R8G8B8A8_SRGB", "SrgbNonLinear">>
            picked == IF reported THEN "R8G8B8A8_SRGB" ELSE formats[1][1]
        IN /\ vsc[1].swapchain.create_info.image_format = picked
           /\ vsc[1].format = picked

\* The preferred pair is reported third, after another format and after
\* R8G8B8A8_SRGB with another colour space, and the chain was built
C23_Witness ==
    /\ surface # None
    /\ vsc # None
    /\ Len(surface[1].formats) = 3
    /\ surface[1].formats[1][1] = "B8G8R8A8_UNORM"
    /\ surface[1].formats[3] = <<"R8G8B8A8_SRGB", "SrgbNonLinear">>
    /\ vsc[1].format = "R8G8B8A8_SRGB"

\* C24: a chain built by VulkanSwapchain::new requests min_image_count =
\* max(driver minimum, MAX_FRAMES_IN_FLIGHT), so it has at least
\* MAX_FRAMES_IN_FLIGHT images, and requests present mode Mailbox when
\* compatible_present_modes lists it and Fifo otherwise.
C24_ImageCountAndPresentMode ==
    (surface # None /\ vsc # None) =>
        LET create_info == vsc[1].swapchain.create_info
            modes == surface[1].compatible_present_modes
        IN /\ create_info.min_image_count =
                 IF surface[1].min_image_count >= MAX_FRAMES_IN_FLIGHT
                 THEN surface[1].min_image_count ELSE MAX_FRAMES_IN_FLIGHT
           /\ vsc[1].image_views >= MAX_FRAMES_IN_FLIGHT
           /\ create_info.present_mode =
                 IF \E i \in DOMAIN modes : modes[i] = "Mailbox"
                 THEN "Mailbox" ELSE "Fifo"

\* The driver's minimum is below MAX_FRAMES_IN_FLIGHT, Mailbox is listed
\* after another mode, and the chain was built with Mailbox
C24_Witness ==
    /\ surface # None
    /\ vsc # None
    /\ surface[1].min_image_count < MAX_FRAMES_IN_FLIGHT
    /\ surface[1].compatible_present_modes = <<"Immediate", "Mailbox", "Fifo">>
    /\ vsc[1].swapchain.create_info.min_image_count = MAX_FRAMES_IN_FLIGHT
    /\ vsc[1].swapchain.create_info.present_mode = "Mailbox"

\* C25: after a create_uniform_buffers call for `count` slots returns Ok, the
\* registry it was called on holds exactly count uniform buffers, whatever
\* calls came before, and get_uniform_buffer(i) answers Some exactly for
\* 0 <= i < count.
C25_OneUniformBufferPerSlot ==
    (uniform_call # None /\ uniform_call[1].ok) =>
        LET bufs == IF uniform_call[1].registry = "VulkanResources"
                    THEN resources.uniform_buffers
                    ELSE manager.uniform_buffers
        IN /\ Len(bufs) = uniform_call[1].count
           /\ uniform_call[1].defined = {i \in 0..(MaxUniformBuffers + 1) :
                                            i < uniform_call[1].count}

\* C26: once a frame is recorded, its draws are, in the order the meshes were
\* uploaded, one per mesh: the mesh's vertex and index buffers bound and one
\* indexed draw of index_count indices from index 0; there are as many draws
\* as uploaded meshes.
C26_OneDrawPerMesh ==
    pc \in {"submit", "drop"} =>
        /\ Len(frame.draws) = Len(resources.meshes)
        /\ \A k \in DOMAIN resources.meshes :
              /\ frame.draws[k].vertex_buffer = resources.meshes[k].vertex_buffer
              /\ frame.draws[k].index_buffer = resources.meshes[k].index_buffer
              /\ frame.draws[k].index_count = resources.meshes[k].index_count
              /\ frame.draws[k].first_index = 0
              /\ frame.draws[k].instance_count = 1

\* A frame was recorded with two different meshes uploaded, the quad first
C26_Witness ==
    /\ pc = "submit"
    /\ Len(resources.meshes) = 2
    /\ resources.meshes[1].index_count = 6
    /\ resources.meshes[2].index_count = 3
    /\ Len(frame.draws) = 2
    /\ frame.draws[1].index_count = 6
    /\ frame.draws[2].index_count = 3

\* C27: the chain a submission hands to the queue is, in this order: wait for
\* the acquisition of the frame's image, execute the recorded commands,
\* present that image, signal a fence; when the submission succeeds, that
\* fence is the pending signal of the current frame slot and of no other.
C27_SubmissionChain ==
    pc = "drop" =>
        /\ Len(frame.chain) = 4
        /\ frame.chain[1] = [op |-> "acquire", arg |-> frame.image_index]
        /\ frame.chain[2].op = "execute"
        /\ frame.chain[3] = [op |-> "present", arg |-> frame.image_index]
        /\ frame.chain[4].op = "signal_fence"
        /\ frame.sub = "Ok" =>
              /\ frame.chain[4].arg = frame.fence
              /\ rcx.frames[rcx.current_frame].in_flight_future = Some(frame.fence)
              /\ \A s \in Slots \ {rcx.current_frame} :
                    rcx.frames[s].in_flight_future # Some(frame.fence)

\* A submission succeeded on slot 1 while slot 0 still holds the fence of an
\* earlier frame
C27_Witness ==
    /\ pc = "drop"
    /\ frame.sub = "Ok"
    /\ rcx.current_frame = 1
    /\ rcx.frames[0].in_flight_future # None
    /\ rcx.frames[1].in_flight_future = Some(frame.fence)
    /\ Len(frame.chain) = 4

C29_ProjectionYFlip ==
    (pc \in {"submit", "drop"} /\ frame.ubo # None) =>
        LET h == 2414
            w == (h * rcx.viewport[2]) \div rcx.viewport[1]
            proj == frame.ubo[1].proj
        IN /\ proj.y_axis[2] = -h
           /\ proj.y_axis[2] < 0
           /\ proj.x_axis = <<w, 0, 0, 0>>
           /\ proj.y_axis[1] = 0 /\ proj.y_axis[3] = 0 /\ proj.y_axis[4] = 0
           /\ proj.z_axis = <<0, 0, -1026, -1000>>
           /\ proj.w_axis = <<0, 0, -513, 0>>

\* A frame was recorded for a viewport twice as wide as high
C29_Witness ==
    /\ pc = "submit"
    /\ frame.ubo # None
    /\ rcx.viewport = <<2, 1>>
    /\ frame.ubo[1].proj.x_axis[1] = 1207
    /\ frame.ubo[1].proj.y_axis[2] = -2414

\* C30: once the render context is initialized, and after every draw_frame
\* call whatever it met (a resized window, a skipped frame, OutOfDate or
\* suboptimal answers, a recreate that succeeded or failed), the viewport
\* extent equals the chain's extent, and a frame that was recorded was
\* recorded with that extent.
C30_ViewportMatchesChain ==
    render_context # None =>
        /\ render_context[1].viewport = render_context[1].swapchain.extent
        /\ \A i \in DOMAIN frame_log :
              frame_log[i].op = "record" =>
                 frame_log[i].extent = render_context[1].swapchain.extent

\* The window was resized after initialization, and a later draw_frame
\* recreated the chain at the new size and recorded a frame
C30_Witness ==
    /\ render_context # None
    /\ render_context[1].swapchain.handle # 0
    /\ render_context[1].swapchain.extent = <<window.width, window.height>>
    /\ \E i \in DOMAIN frame_log :
          /\ frame_log[i].op = "recreate"
          /\ frame_log[i].res = "Ok"
    /\ \E i \in DOMAIN frame_log :
          /\ frame_log[i].op = "record"
          /\ frame_log[i].extent = <<MaxWidth, 1>>

\* C31: the frame index changes only in the step that ends an update whose
\* submission succeeded in that update, and then to the next index modulo
\* MAX_FRAMES_IN_FLIGHT; every other step, and the end of an update that was
\* skipped, met OutOfDate at acquisition or at submission, or failed, leaves
\* it as it was.
C31_IndexChangesOnlyAfterSubmit ==
    [][rcx'.current_frame # rcx.current_frame =>
          /\ pc = "drop"
          /\ pc' = "idle"
          /\ frame.sub = "Ok"
          /\ rcx'.current_frame = (rcx.current_frame + 1) % MAX_FRAMES_IN_FLIGHT]_vars

\* An update on slot 0 was submitted, its fence waited for, and the index is 1;
\* its slot still holds the fence
C31_Witness ==
    /\ pc = "idle"
    /\ last_frame # None
    /\ last_frame[1].slot = 0
    /\ last_frame[1].sub = "Ok"
    /\ last_frame[1].waited
    /\ rcx.current_frame = 1
    /\ rcx.frames[0].in_flight_future # None

\* C32 as stated: whenever no update is in progress, no submitted frame is
\* still executing on the GPU.
C32_NoFrameInFlightAtReturn ==
    pc = "idle" => \A f \in FenceIds : gpu[f].state # "executing"

\* C32: the frame index advances only once the fence stored in the current
\* slot has signaled; at most one submitted frame is unfinished at any time;
\* and a frame is still unfinished when an update has returned only if the
\* fence wait of the last submitted frame returned an error.
C32_AdvanceAfterFenceSignaled ==
    /\ [](/\ Cardinality({f \in FenceIds : gpu[f].state = "executing"}) <= 1
          /\ (pc = "idle" /\ \E f \in FenceIds : gpu[f].state = "executing") =>
                /\ last_frame # None
                /\ last_frame[1].sub = "Ok"
                /\ ~last_frame[1].waited)
    /\ [][rcx'.current_frame # rcx.current_frame =>
             /\ rcx.frames[rcx.current_frame].in_flight_future # None
             /\ gpu[rcx.frames[rcx.current_frame].in_flight_future[1]].state = "signaled"
             /\ \A f \in FenceIds : gpu[f].state # "executing"]_vars

\* An update was submitted while nothing else was executing, its fence was
\* waited for, and it returned with the index advanced and nothing executing
C32_Witness ==
    /\ pc = "idle"
    /\ result.val = "Ok"
    /\ last_frame # None
    /\ last_frame[1].sub = "Ok"
    /\ last_frame[1].waited
    /\ rcx.current_frame # last_frame[1].slot
    /\ \A f \in FenceIds : gpu[f].state # "executing"
    /\ \E f \in FenceIds : gpu[f].state = "signaled"

\* C33: a VulkanSwapchain::recreate call that fails leaves the chain entirely
\* as it was: the chain's handle, image views and recorded extent change only
\* in a call that succeeds.
C33_FailedRecreateChangesNothing ==
    [][(vsc # None /\ vsc' # vsc) => calls'[Len(calls')].ok]_vars

C35_PreviousFrameEndPresent ==
    render_context # None =>
       /\ ret.val \in {"none", "Ok"} => render_context[1].previous_frame_end # None
       /\ render_context[1].previous_frame_end = None =>
             /\ ret.val = "Err"
             /\ \/ ret.logged = "Previous frame could not be borrowed"
                \/ /\ frame_log # <<>>
                   /\ frame_log[Len(frame_log)].op = "submit"
                   /\ frame_log[Len(frame_log)].res = "Err"

\* C35 witness: a draw_frame whose submission answered OutOfDate has returned
\* Ok and a completion signal is in place for the next update
C35_Witness ==
    /\ render_context # None
    /\ ret.val = "Ok"
    /\ frame_log # <<>>
    /\ frame_log[Len(frame_log)].op = "submit"
    /\ frame_log[Len(frame_log)].res = "OutOfDate"
    /\ render_context[1].previous_frame_end = Some("now")

\* C36: the mesh and texture lists of VulkanResources and the mesh list of
\* VulkanResourceManager change only in the step in which an upload call
\* reaches its return of Ok, and then only by one entry appended to the list
\* of that call; a call that returns Err has left every list as it was.
C36_FailedUploadChangesNothing ==
    [][/\ (resources' # resources \/ manager' # manager) =>
            /\ upload # None /\ upload[1].ret = None
            /\ upload' # None /\ upload'[1].ret # None
            /\ upload'[1].ret[1].val = "Ok"
            /\ upload[1].stage = 2 /\ upload[1].waiting
            /\ \E e \in {GPUMesh(upload[1].args[1], upload[1].args[2],
                                 upload[1].args[1], upload[1].args[2]),
                         GPUTexture(upload[1].mip_levels)} :
                  \/ /\ upload[1].op = "upload_mesh"
                     /\ resources' = [resources EXCEPT !.meshes = Append(@, e)]
                     /\ manager' = manager
                  \/ /\ upload[1].op = "upload_texture"
                     /\ resources' = [resources EXCEPT !.textures = Append(@, e)]
                     /\ manager' = manager
                  \/ /\ upload[1].op = "create_mesh"
                     /\ manager' = [manager EXCEPT !.meshes = Append(@, e)]
                     /\ resources' = resources
       /\ (upload' # None /\ upload'[1].ret # None /\ upload'[1].ret[1].val = "Err") =>
            resources' = resources /\ manager' = manager
      ]_vars

\* C36 witness: the second upload_texture of a load has returned Err after
\* its copies were done (its image view or sampler failed) and the texture
\* list still holds the first texture only
C36_Witness ==
    /\ upload # None
    /\ upload[1].op = "upload_texture"
    /\ upload[1].stage = 2 /\ upload[1].waiting
    /\ upload[1].ret = Some(Returned("Err", None))
    /\ in_flight = {}
    /\ load.scene.textures = 2 /\ load.left.textures = 0
    /\ Len(resources.textures) = 1

\* C37: for a W x H texture whose blits generate_mipmaps has recorded, the
\* dimensions of the image's levels (the image's extent, then the
\* destination of each blit, as many as upload_texture's level count) end
\* with 1 x 1, and no level before the last is 1 x 1.
C37_LastMipIsOneByOne ==
    (upload # None /\ upload[1].op = "upload_texture" /\ upload[1].linear = Some(TRUE))
      => LET b == upload[1].blits
             dims == <<upload[1].args>> \o [i \in DOMAIN b |-> b[i].dst]
         IN /\ Len(dims) = upload[1].mip_levels
            /\ dims[Len(dims)] = <<1, 1>>
            /\ \A i \in 1..(Len(dims) - 1) : dims[i] # <<1, 1>>

\* C37 witness: a 3x2 texture was uploaded with its two levels, 3x2 and 1x1
C37_Witness ==
    /\ upload # None
    /\ upload[1].op = "upload_texture"
    /\ upload[1].args = <<3, 2>>
    /\ upload[1].mip_levels = 2
    /\ Len(upload[1].blits) = 1
    /\ upload[1].blits[1].dst = <<1, 1>>
    /\ upload[1].ret = Some(Returned("Ok", None))

\* C38: every cached pass entry of the RenderTargets holds one framebuffer
\* per current image, in image order, each on a view of its image; a step
\* that changes the images leaves the cache empty, so that framebuffers(k)
\* is None for every pass; an entry appears or changes only in a
\* rebuild_for_pass of its key that returned Ok; and a rebuild_for_pass that
\* returned an error has changed nothing.
C38_FramebuffersPerImage ==
    /\ [](render_targets # None =>
            \A k \in DOMAIN render_targets[1].framebuffers :
               LET fbs == render_targets[1].framebuffers[k]
                   images == render_targets[1].images
               IN /\ k \in PassKeys
                  /\ Len(fbs) = Len(images)
                  /\ \A i \in DOMAIN images :
                        fbs[i].attachments = <<[image |-> images[i]]>>)
    /\ [][(render_targets # None /\ render_targets' # render_targets) =>
            /\ (\/ render_targets'[1].images # render_targets[1].images
                \/ targets_call'[1].op = "replace_images") =>
                  /\ targets_call'[1].op = "replace_images"
                  /\ DOMAIN render_targets'[1].framebuffers = {}
            /\ \A k \in DOMAIN render_targets'[1].framebuffers :
                  (\/ k \notin DOMAIN render_targets[1].framebuffers
                   \/ render_targets'[1].framebuffers[k]
                         # render_targets[1].framebuffers[k]) =>
                     targets_call' = Some(TargetsCall("rebuild_for_pass", k, TRUE))
            /\ targets_call'[1].ok
      ]_vars

\* C38 witness: after replace_images emptied a cache that held both passes,
\* pass 1 was rebuilt and a rebuild of pass 0 then failed: pass 1 has its
\* framebuffers on the new images and pass 0 has none
C38_Witness ==
    /\ render_targets # None
    /\ targets_call = Some(TargetsCall("rebuild_for_pass", 0, FALSE))
    /\ render_targets[1].images = swapchain_images(1, MaxImages)
    /\ DOMAIN render_targets[1].framebuffers = {1}
    /\ Len(render_targets[1].framebuffers[1]) = MaxImages

\* C39: a key is in the Input's pressed set exactly when the last event
\* handled for it was Pressed; a key becomes just-pressed only in a step in
\* which it goes from not held to held, and every such step marks it (a
\* repeated Pressed of a held key marks nothing); and an update that returns
\* Ok leaves the just-pressed and just-released sets empty and the pressed
\* keys, the pressed mouse buttons and the cursor position as they were.
C39_InputTracker ==
    /\ [](\A k \in Keys :
            (k \in input.keys_pressed)
               <=> (last_key_event[k] # None /\ last_key_event[k][1].state = "Pressed"))
    /\ [][/\ \A k \in Keys :
               /\ (k \in input'.keys_just_pressed /\ k \notin input.keys_just_pressed)
                     => (k \notin input.keys_pressed /\ k \in input'.keys_pressed)
               /\ (k \notin input.keys_pressed /\ k \in input'.keys_pressed)
                     => k \in input'.keys_just_pressed
          /\ (ticks' # ticks /\ ret'.val = "Ok") =>
               /\ input'.keys_just_pressed = {}
               /\ input'.keys_just_released = {}
               /\ input'.keys_pressed = input.keys_pressed
               /\ input'.mouse_buttons_pressed = input.mouse_buttons_pressed
               /\ input'.mouse_pos = input.mouse_pos
      ]_vars

\* C39 witness: after an update, key 1 is held, its last event is a repeated
\* Pressed and it is not marked as just pressed; key 2 was pressed in this
\* frame; a mouse button is held and the cursor has moved
C39_Witness ==
    /\ last_key_event[1] = Some(KeyEvent(1, "Pressed", TRUE))
    /\ input.keys_pressed = {1, 2}
    /\ input.keys_just_pressed = {2}
    /\ input.keys_just_released = {}
    /\ input.mouse_buttons_pressed = {"Left"}
    /\ input.mouse_pos = <<1, 1>>
    /\ ret.val = "Ok"

====
